---- MODULE Spec2Model ----
(***************************************************************************)
(* Model of the steel-capture real-time pipeline: the coordinator          *)
(* (src/src/coordinator.rs), the string detector                            *)
(* (src/src/string_detector.rs), the bar inferencer                         *)
(* (src/src/bar_inference.rs) and the Hall bar sensor                       *)
(* (src/src/bar_sensor.rs).                                                 *)
(*                                                                         *)
(* Fixed-point conventions (floats of the source become integers):          *)
(*   engagements, readings, confidences, sample amplitudes : 1/1000         *)
(*   fret positions and MIDI pitches                        : 1/100         *)
(*   spectral energies                                      : 1/10000       *)
(* An Option<f32> is an integer, NONE standing for None.                    *)
(* An audio buffer is a sequence of runs [n, amp]: n consecutive samples    *)
(* of magnitude amp.                                                        *)
(***************************************************************************)
EXTENDS Integers, Sequences, FiniteSets, TLC

VARIABLES
    input_q,              \* coordinator input channel (InputEvent queue)
    input_open,           \* TRUE while a sender of the input channel exists
    produced,             \* number of events the sources have sent
    last_ts,              \* timestamp of the last sensor frame a source sent
    frame_q,              \* sink k -> queue of CaptureFrames (bounded channel)
    rx_alive,             \* sink k -> its receiver still exists
    received,             \* sink k -> last frame its consumer received
    pc,                   \* coordinator position: "recv", "send", "done"
    send_idx,             \* next sink of the send loop
    frame,                \* CaptureFrame being sent
    use_audio_detection,  \* Coordinator.use_audio_detection
    prev_active,          \* run(): prev_active
    prev_pedal_engaged,   \* run(): prev_pedal_engaged
    prev_lever_engaged,   \* run(): prev_lever_engaged
    inference,            \* BarInference
    string_detector,      \* StringDetector
    taken,                \* sensor frames taken from the input channel, in order
    step,                 \* record of the last operation applied (observation)
    audio_capture,        \* AudioCapture: inner channel, callback and worker thread
    session,              \* SessionReader over a recorded JSONL session
    serial,               \* SerialReader::run: port, frame_buf, counters
    broadcaster,          \* ws_server broadcast loop
    logger,               \* DataLogger::run with its two receivers
    twin,                 \* two coordinators, one per mode, fed the same events
    sink_pc               \* position of each sink thread: start, loop, ended, failed

vars == << input_q, input_open, produced, last_ts, frame_q, rx_alive, received,
           pc, send_idx, frame, use_audio_detection, prev_active,
           prev_pedal_engaged, prev_lever_engaged, inference, string_detector,
           taken, step, audio_capture, session, sink_pc, serial, broadcaster,
           logger, twin >>

\* State of the serial reader, the WebSocket broadcaster and the data logger
extVars == << serial, broadcaster, logger, twin >>

\* State of the threads around the coordinator
ioVars == << audio_capture, session, sink_pc, extVars >>

----------------------------------------------------------------------------
(* Bounds of the model *)
MaxLogEvents == 4     \* events the coordinator handles while the logger runs
LogCap == 2           \* capacity of the logger's frame channel in the model
MaxTwinEvents == 4    \* events fed to the two coordinators run side by side
MaxWsFrames == 4      \* frames the WebSocket broadcaster receives
MaxSegs == 3          \* segments of the byte stream on the serial port
MaxEstimates == 2     \* calls of BarSensor::estimate and reset
MaxPushes == 3        \* audio chunks pushed into the buffers
MaxLines == 3         \* lines of a session file after its header
MaxEvents == 3        \* events the sources send before they stop
InputCap == 1         \* capacity of the input channel in the model
SinkCap == 1          \* capacity of a sink channel in the model
NumSinks == 2         \* sinks registered with the coordinator
MaxPipeEvents == 4    \* events fed to run_pipeline
MaxOps == 6           \* operations applied in the component specifications
MaxCallbacks == 4     \* audio callbacks cpal makes
RawCap == 2           \* capacity of the capture's inner channel in the model

(* Program constants *)
NSTRINGS == 10
NPEDALS == 3
NLEVERS == 5
NONE == -1
ANALYSIS_WINDOW == 4096
ANALYSIS_INTERVAL == 2048
ENGAGED_THRESHOLD == 500
PRESENCE_THRESHOLD == 50
DISAGREEMENT_LIMIT == 200
DET_SILENCE_RMS == 3
INF_SILENCE_RMS == 5
ONSET_DEFAULT == 200
RELEASE_DEFAULT == 80
PEAK_FLOOR == 100
CHUNK_SIZE == 1024

Strings == 0 .. (NSTRINGS - 1)
Pedals == 0 .. (NPEDALS - 1)
Levers == 0 .. (NLEVERS - 1)
Sinks == 1 .. NumSinks

AllFalse == [i \in Strings |-> FALSE]
Mask(S) == [i \in Strings |-> i \in S]

Min(a, b) == IF a <= b THEN a ELSE b
Max(a, b) == IF a >= b THEN a ELSE b
Clamp(x, lo, hi) == Max(lo, Min(x, hi))
Abs(x) == IF x < 0 THEN -x ELSE x

----------------------------------------------------------------------------
(* Audio buffers *)

RECURSIVE BufLen(_)
BufLen(buf) == IF buf = << >> THEN 0 ELSE Head(buf).n + BufLen(Tail(buf))

\* Vec::extend_from_slice: the chunk's samples go to the back of the buffer.
Extend(buf, chunk) ==
    IF buf # << >> /\ buf[Len(buf)].amp = chunk.amp
    THEN [buf EXCEPT ![Len(buf)].n = @ + chunk.n]
    ELSE Append(buf, [n |-> chunk.n, amp |-> chunk.amp])

\* Vec::drain(..excess): the oldest `excess` samples leave the buffer.
RECURSIVE Drain(_, _)
Drain(buf, excess) ==
    IF excess <= 0 \/ buf = << >> THEN buf
    ELSE IF Head(buf).n <= excess THEN Drain(Tail(buf), excess - Head(buf).n)
    ELSE << [Head(buf) EXCEPT !.n = @ - excess] >> \o Tail(buf)

\* The most recent ANALYSIS_WINDOW samples: buf[len.saturating_sub(window)..].
Window(buf) == Drain(buf, BufLen(buf) - ANALYSIS_WINDOW)

RECURSIVE SumSquares(_)
SumSquares(buf) ==
    IF buf = << >> THEN 0
    ELSE Head(buf).n * Head(buf).amp * Head(buf).amp + SumSquares(Tail(buf))

\* compute_rms(samples) < threshold, i.e. mean(x^2) < threshold^2; 0 if empty.
RmsBelow(samples, threshold) ==
    IF samples = << >> THEN 0 < threshold
    ELSE SumSquares(samples) < threshold * threshold * BufLen(samples)

----------------------------------------------------------------------------
(* Copedant engine: src/src/copedant.rs *)

\* buddy_emmons_e9(): open strings and the (string, delta) changes.
open_strings == [i \in Strings |->
    CASE i = 0 -> 6600 [] i = 1 -> 6300 [] i = 2 -> 6800 [] i = 3 -> 6400
      [] i = 4 -> 5900 [] i = 5 -> 5600 [] i = 6 -> 5400 [] i = 7 -> 5200
      [] i = 8 -> 5000 [] i = 9 -> 4700]

pedal_changes == [j \in Pedals |->
    CASE j = 0 -> { <<4, 2>>, <<9, 2>> }
      [] j = 1 -> { <<2, 1>>, <<5, 1>> }
      [] j = 2 -> { <<3, 2>>, <<4, 2>> }]

lever_changes == [j \in Levers |->
    CASE j = 0 -> { <<3, 1>>, <<7, 1>> }
      [] j = 1 -> { <<3, -1>>, <<4, -1>>, <<7, -1>> }
      [] j = 2 -> { <<4, -1>>, <<9, -1>> }
      [] j = 3 -> { <<1, 1>>, <<5, -2>> }
      [] j = 4 -> { <<1, -2>>, <<8, -1>> }]

\* delta (semitones) of a change list on string i, 0 when not listed
DeltaOn(changes, i) ==
    IF \E c \in changes : c[1] = i
    THEN (CHOOSE c \in changes : c[1] = i)[2]
    ELSE 0

\* delta of pedal j / lever j on string i, as tables
pedal_delta == [j \in Pedals |-> [i \in Strings |-> DeltaOn(pedal_changes[j], i)]]
lever_delta == [j \in Levers |-> [i \in Strings |-> DeltaOn(lever_changes[j], i)]]

PedalTerm(sensor, i, j) == (pedal_delta[j][i] * sensor.pedals[j]) \div 10
LeverTerm(sensor, i, j) == (lever_delta[j][i] * sensor.knee_levers[j]) \div 10

\* effective_open_pitches treating a control as a switch: the full delta
\* once the control is past half travel, nothing before.
effective_open_pitches_OnOff(sensor) == [i \in Strings |->
    LET P(j) == IF sensor.pedals[j] > 500 THEN pedal_delta[j][i] * 100 ELSE 0
        L(j) == IF sensor.knee_levers[j] > 500 THEN lever_delta[j][i] * 100 ELSE 0
    IN  open_strings[i] + P(0) + P(1) + P(2) + L(0) + L(1) + L(2) + L(3) + L(4)]

effective_open_pitches(sensor) == [i \in Strings |->
    open_strings[i]
    + PedalTerm(sensor, i, 0) + PedalTerm(sensor, i, 1) + PedalTerm(sensor, i, 2)
    + LeverTerm(sensor, i, 0) + LeverTerm(sensor, i, 1) + LeverTerm(sensor, i, 2)
    + LeverTerm(sensor, i, 3) + LeverTerm(sensor, i, 4)]

\* pitches_at_bar.  A pitch in Hz is represented by the MIDI number it is
\* midi_to_hz of (midi_to_hz is strictly increasing).
pitches_at_bar(effective_open, bar_fret) ==
    [i \in Strings |-> effective_open[i] + bar_fret]

\* compute_pitches giving the bare open strings when no bar is detected.
compute_pitches_RawOpen(sensor, bar_fret) ==
    IF bar_fret # NONE
    THEN pitches_at_bar(effective_open_pitches(sensor), bar_fret)
    ELSE open_strings

compute_pitches(sensor, bar_fret) ==
    IF bar_fret # NONE
    THEN pitches_at_bar(effective_open_pitches(sensor), bar_fret)
    ELSE effective_open_pitches(sensor)

\* freq < 20.0 || freq > sr / 2.0 for freq = midi_to_hz(midi), sr = 48000:
\* 20 Hz is MIDI 15.49 and 24 kHz is MIDI 138.23.
MIDI_20HZ == 1549
MIDI_NYQUIST == 13823
OutOfRange(midi) == midi < MIDI_20HZ \/ midi > MIDI_NYQUIST

----------------------------------------------------------------------------
(* Hall bar sensor: src/src/bar_sensor.rs *)

BAR_SENSOR_FRETS == [k \in 0 .. 3 |-> 500 * k]

\* Iterator::max_by keeps the last of several equal maxima.
PeakIdx(readings) ==
    CHOOSE k \in 0 .. 3 :
        /\ \A m \in 0 .. 3 : readings[m] <= readings[k]
        /\ \A m \in 0 .. 3 : m > k => readings[m] < readings[k]

\* The best neighbour of the peak sensor: the left one on a tie.
NeighborIdx(readings, peak_idx) ==
    IF peak_idx > 0 /\ peak_idx < 3
    THEN IF readings[peak_idx - 1] >= readings[peak_idx + 1]
         THEN peak_idx - 1 ELSE peak_idx + 1
    ELSE IF peak_idx > 0 THEN peak_idx - 1 ELSE peak_idx + 1

\* estimate holding the last position while the bar is absent.
estimate_HoldLast(readings, last) ==
    LET total == readings[0] + readings[1] + readings[2] + readings[3]
        peak_idx == PeakIdx(readings)
        peak_val == readings[peak_idx]
        n_idx == NeighborIdx(readings, peak_idx)
        n_val == readings[n_idx]
        raw_pos == IF 2 * n_val > PRESENCE_THRESHOLD
                   THEN BAR_SENSOR_FRETS[peak_idx]
                        + (n_val * (BAR_SENSOR_FRETS[n_idx] - BAR_SENSOR_FRETS[peak_idx]))
                          \div (peak_val + n_val)
                   ELSE BAR_SENSOR_FRETS[peak_idx]
        peakedness == (peak_val * 1000) \div total
        confidence == Clamp(((peakedness - 250) * 1000) \div 750, 300, 1000)
        smoothed == IF last # NONE THEN last + (7 * (raw_pos - last)) \div 10
                    ELSE raw_pos
    IN  IF total < PRESENCE_THRESHOLD \/ peak_val < PRESENCE_THRESHOLD
        THEN [pos |-> last, conf |-> IF last = NONE THEN 0 ELSE 300, last |-> last]
        ELSE [pos |-> smoothed, conf |-> confidence, last |-> smoothed]

\* estimate testing only the sum of the readings for presence.
estimate_SumOnly(readings, last) ==
    LET total == readings[0] + readings[1] + readings[2] + readings[3]
        peak_idx == PeakIdx(readings)
        peak_val == readings[peak_idx]
        n_idx == NeighborIdx(readings, peak_idx)
        n_val == readings[n_idx]
        raw_pos == IF 2 * n_val > PRESENCE_THRESHOLD
                   THEN BAR_SENSOR_FRETS[peak_idx]
                        + (n_val * (BAR_SENSOR_FRETS[n_idx] - BAR_SENSOR_FRETS[peak_idx]))
                          \div (peak_val + n_val)
                   ELSE BAR_SENSOR_FRETS[peak_idx]
        peakedness == (peak_val * 1000) \div total
        confidence == Clamp(((peakedness - 250) * 1000) \div 750, 300, 1000)
        smoothed == IF last # NONE THEN last + (7 * (raw_pos - last)) \div 10
                    ELSE raw_pos
    IN  IF total < PRESENCE_THRESHOLD
        THEN [pos |-> NONE, conf |-> 0, last |-> NONE]
        ELSE [pos |-> smoothed, conf |-> confidence, last |-> smoothed]

\* BarSensor::estimate(readings) with self.last_position = last.
\* Result: pos = NONE when the bar is absent; last is the new last_position.
estimate(readings, last) ==
    LET total == readings[0] + readings[1] + readings[2] + readings[3]
        peak_idx == PeakIdx(readings)
        peak_val == readings[peak_idx]
        n_idx == NeighborIdx(readings, peak_idx)
        n_val == readings[n_idx]
        raw_pos == IF 2 * n_val > PRESENCE_THRESHOLD
                   THEN BAR_SENSOR_FRETS[peak_idx]
                        + (n_val * (BAR_SENSOR_FRETS[n_idx] - BAR_SENSOR_FRETS[peak_idx]))
                          \div (peak_val + n_val)
                   ELSE BAR_SENSOR_FRETS[peak_idx]
        peakedness == (peak_val * 1000) \div total
        confidence == Clamp(((peakedness - 250) * 1000) \div 750, 300, 1000)
        smoothed == IF last # NONE THEN last + (7 * (raw_pos - last)) \div 10
                    ELSE raw_pos
    IN  IF total < PRESENCE_THRESHOLD \/ peak_val < PRESENCE_THRESHOLD
        THEN [pos |-> NONE, conf |-> 0, last |-> NONE]
        ELSE [pos |-> smoothed, conf |-> confidence, last |-> smoothed]

----------------------------------------------------------------------------
(* Bar inferencer: src/src/bar_inference.rs *)

\* BarInference::new()
NewInference == [ last_position |-> NONE,
                  silence_count |-> 0,
                  audio_buf |-> << >>,
                  samples_since_analysis |-> 0,
                  bar_sensor_last |-> NONE ]

\* PushBuf that never discards a sample.
PushBuf_NoDrain(buf, chunk) == Extend(buf, chunk)

\* push_audio of both BarInference and StringDetector (the same code):
\* extend_from_slice, then drain(..excess) when the length exceeds
\* 2 * analysis_window.
PushBuf(buf, chunk) ==
    LET ext == Extend(buf, chunk)
    IN  Drain(ext, BufLen(ext) - 2 * ANALYSIS_WINDOW)

inf_push_audio(inf, chunk) ==
    [inf EXCEPT !.audio_buf = PushBuf(@, chunk),
                !.samples_since_analysis = @ + chunk.n]

\* inf_ready looking at the buffer length only.
inf_ready_WindowOnly(inf) == BufLen(inf.audio_buf) >= ANALYSIS_WINDOW

inf_ready(inf) ==
    /\ BufLen(inf.audio_buf) >= ANALYSIS_WINDOW
    /\ inf.samples_since_analysis >= ANALYSIS_INTERVAL

\* refine_fret without the final clamp.
refine_fret_NoClamp(best, offset) == best + (offset * 10) \div 1000

\* refine_fret: best + offset * step, clamped to [0, 24] frets.  offset (in
\* 1/1000) is the parabolic offset 0.5 * (s_below - s_above) / denom, 0 when
\* |denom| < 1e-20.
refine_fret(best, offset) == Clamp(best + (offset * 10) \div 1000, 0, 2400)

\* infer_audio's confidence from ratio = best_score / avg_score (in 1/1000).
audio_confidence(ratio) == Clamp((ratio - 1000) \div 10, 100, 1000)

\* infer_audio whose silent pass leaves samples_since_analysis as it is.
infer_audio_SilenceKeepsCount(inf, dsp) ==
    IF ~inf_ready(inf)
    THEN [inf |-> inf, pos |-> NONE, conf |-> 0, ran |-> FALSE]
    ELSE IF RmsBelow(Window(inf.audio_buf), INF_SILENCE_RMS)
    THEN [inf |-> [inf EXCEPT !.silence_count = Min(@ + 1, MaxOps)],
          pos |-> NONE, conf |-> 0, ran |-> TRUE]
    ELSE [inf |-> [inf EXCEPT !.samples_since_analysis = 0,
                              !.silence_count = 0],
          pos |-> dsp.audio.pos,
          conf |-> IF dsp.audio.pos = NONE THEN 0 ELSE dsp.audio.conf,
          ran |-> TRUE]

\* infer_audio: dsp.audio is what the spectral template match yields on the
\* window (pos = NONE when best_score or total_score is below 1e-10).
infer_audio(inf, dsp) ==
    IF ~inf_ready(inf)
    THEN [inf |-> inf, pos |-> NONE, conf |-> 0, ran |-> FALSE]
    ELSE IF RmsBelow(Window(inf.audio_buf), INF_SILENCE_RMS)
    THEN [inf |-> [inf EXCEPT !.samples_since_analysis = 0,
                              !.silence_count = Min(@ + 1, MaxOps)],
          pos |-> NONE, conf |-> 0, ran |-> TRUE]
    ELSE [inf |-> [inf EXCEPT !.samples_since_analysis = 0,
                              !.silence_count = 0],
          pos |-> dsp.audio.pos,
          conf |-> IF dsp.audio.pos = NONE THEN 0 ELSE dsp.audio.conf,
          ran |-> TRUE]

\* BarInference::smooth
smooth(last, pos) == IF last # NONE THEN last + (3 * (pos - last)) \div 10 ELSE pos

\* Fuse blending the two estimates however far apart they are.
Fuse_BlendAlways(s_pos, s_conf, a_pos, a_conf) ==
    IF s_pos # NONE /\ a_pos # NONE
    THEN [pos |-> (s_pos * 4 + a_pos * 6) \div 10,
          conf |-> Min((s_conf * 5 + a_conf * 5) \div 10, 1000),
          source |-> "Fused"]
    ELSE IF s_pos # NONE
    THEN [pos |-> s_pos, conf |-> (s_conf * 8) \div 10, source |-> "Sensor"]
    ELSE IF a_pos # NONE
    THEN [pos |-> a_pos, conf |-> (a_conf * 7) \div 10, source |-> "Audio"]
    ELSE [pos |-> NONE, conf |-> 0, source |-> "None"]

\* Fuse with the blend weights exchanged (0.6 on the sensor).
Fuse_SwappedWeights(s_pos, s_conf, a_pos, a_conf) ==
    IF s_pos # NONE /\ a_pos # NONE
    THEN IF Abs(s_pos - a_pos) < DISAGREEMENT_LIMIT
         THEN [pos |-> (s_pos * 6 + a_pos * 4) \div 10,
               conf |-> Min((s_conf * 5 + a_conf * 5) \div 10, 1000),
               source |-> "Fused"]
         ELSE [pos |-> s_pos, conf |-> (s_conf * 8) \div 10, source |-> "Fused"]
    ELSE IF s_pos # NONE
    THEN [pos |-> s_pos, conf |-> (s_conf * 8) \div 10, source |-> "Sensor"]
    ELSE IF a_pos # NONE
    THEN [pos |-> a_pos, conf |-> (a_conf * 7) \div 10, source |-> "Audio"]
    ELSE [pos |-> NONE, conf |-> 0, source |-> "None"]

\* The fused (position, confidence, source) of the match in infer, before
\* smoothing; pos = NONE in the (None, None) arm.
Fuse(s_pos, s_conf, a_pos, a_conf) ==
    IF s_pos # NONE /\ a_pos # NONE
    THEN IF Abs(s_pos - a_pos) < DISAGREEMENT_LIMIT
         THEN [pos |-> (s_pos * 4 + a_pos * 6) \div 10,
               conf |-> Min((s_conf * 5 + a_conf * 5) \div 10, 1000),
               source |-> "Fused"]
         ELSE [pos |-> s_pos, conf |-> (s_conf * 8) \div 10, source |-> "Fused"]
    ELSE IF s_pos # NONE
    THEN [pos |-> s_pos, conf |-> (s_conf * 8) \div 10, source |-> "Sensor"]
    ELSE IF a_pos # NONE
    THEN [pos |-> a_pos, conf |-> (a_conf * 7) \div 10, source |-> "Audio"]
    ELSE [pos |-> NONE, conf |-> 0, source |-> "None"]

\* infer whose (None, None) arm leaves last_position as it is.
infer_KeepsSmoother(inf, sensor, dsp) ==
    LET s == estimate(sensor.bar_sensors, inf.bar_sensor_last)
        a == infer_audio(inf, dsp)
        f == Fuse(s.pos, s.conf, a.pos, a.conf)
        smoothed == IF f.pos = NONE THEN NONE ELSE smooth(a.inf.last_position, f.pos)
    IN  [ inf |-> [a.inf EXCEPT !.bar_sensor_last = s.last,
                                !.last_position = IF f.pos = NONE THEN @ ELSE smoothed],
          state |-> [position |-> smoothed, confidence |-> f.conf, source |-> f.source],
          sensor_est |-> [pos |-> s.pos, conf |-> s.conf],
          audio_est |-> [pos |-> a.pos, conf |-> a.conf],
          fused |-> f.pos,
          ran |-> a.ran ]

\* BarInference::infer(sensor, engine).  Result: the new inferencer, the
\* BarState, and the three intermediate values of the call.
infer(inf, sensor, dsp) ==
    LET s == estimate(sensor.bar_sensors, inf.bar_sensor_last)
        a == infer_audio(inf, dsp)
        f == Fuse(s.pos, s.conf, a.pos, a.conf)
        smoothed == IF f.pos = NONE THEN NONE ELSE smooth(a.inf.last_position, f.pos)
    IN  [ inf |-> [a.inf EXCEPT !.bar_sensor_last = s.last,
                                !.last_position = smoothed],
          state |-> [position |-> smoothed, confidence |-> f.conf, source |-> f.source],
          sensor_est |-> [pos |-> s.pos, conf |-> s.conf],
          audio_est |-> [pos |-> a.pos, conf |-> a.conf],
          fused |-> f.pos,
          ran |-> a.ran ]

----------------------------------------------------------------------------
(* String detector: src/src/string_detector.rs *)

\* StringDetector::new()
NewDetector == [ energy |-> [i \in Strings |-> 0],
                 peak_energy |-> [i \in Strings |-> PEAK_FLOOR],
                 active |-> AllFalse,
                 onset_threshold |-> [i \in Strings |-> ONSET_DEFAULT],
                 release_threshold |-> [i \in Strings |-> RELEASE_DEFAULT],
                 audio_buf |-> << >>,
                 samples_since_analysis |-> 0 ]

\* StringDetector::with_thresholds
with_thresholds(det, onset, release) ==
    [det EXCEPT !.onset_threshold = onset, !.release_threshold = release]

\* StringDetector::reset
reset(det) ==
    [det EXCEPT !.energy = [i \in Strings |-> 0],
                !.peak_energy = [i \in Strings |-> PEAK_FLOOR],
                !.active = AllFalse,
                !.audio_buf = << >>,
                !.samples_since_analysis = 0]

\* Calibration::onset_thresholds: the record's first ten strings, the
\* default for the others.
onset_thresholds(cal) ==
    [i \in Strings |-> IF i < Len(cal) THEN cal[i + 1].onset ELSE ONSET_DEFAULT]

\* release_thresholds with 0.08 for 0.008 as the default.
release_thresholds_WrongDefault(cal) ==
    [i \in Strings |-> IF i < Len(cal) THEN cal[i + 1].release ELSE 10 * RELEASE_DEFAULT]

\* Calibration::release_thresholds
release_thresholds(cal) ==
    [i \in Strings |-> IF i < Len(cal) THEN cal[i + 1].release ELSE RELEASE_DEFAULT]

det_push_audio(det, chunk) ==
    [det EXCEPT !.audio_buf = PushBuf(@, chunk),
                !.samples_since_analysis = @ + chunk.n]

\* det_ready looking at the buffer length only.
det_ready_WindowOnly(det) == BufLen(det.audio_buf) >= ANALYSIS_WINDOW

det_ready(det) ==
    /\ BufLen(det.audio_buf) >= ANALYSIS_WINDOW
    /\ det.samples_since_analysis >= ANALYSIS_INTERVAL

\* DetectString flagging an attack whenever the energy is above onset,
\* also for a string that is already active.
DetectString_Retrigger(det, si, midi, normalized) ==
    LET e == (det.energy[si] * 6 + normalized * 4) \div 10
        peak == IF e > det.peak_energy[si] THEN e
                ELSE Max((det.peak_energy[si] * 992) \div 1000, PEAK_FLOOR)
        act == IF det.active[si]
               THEN ~(e < det.release_threshold[si])
               ELSE e > det.onset_threshold[si]
    IN  IF OutOfRange(midi)
        THEN [energy |-> 0, peak |-> det.peak_energy[si], active |-> FALSE,
              attack |-> FALSE]
        ELSE [energy |-> e, peak |-> peak, active |-> act,
              attack |-> e > det.onset_threshold[si]]

\* DetectString letting the peak decay below the floor.
DetectString_NoFloor(det, si, midi, normalized) ==
    LET e == (det.energy[si] * 6 + normalized * 4) \div 10
        peak == IF e > det.peak_energy[si] THEN e
                ELSE (det.peak_energy[si] * 992) \div 1000
        act == IF det.active[si]
               THEN ~(e < det.release_threshold[si])
               ELSE e > det.onset_threshold[si]
    IN  IF OutOfRange(midi)
        THEN [energy |-> 0, peak |-> det.peak_energy[si], active |-> FALSE,
              attack |-> FALSE]
        ELSE [energy |-> e, peak |-> peak, active |-> act,
              attack |-> ~det.active[si] /\ e > det.onset_threshold[si]]

\* One iteration of the per-string loop of detect (lines 155-208).
\* normalized is (mag + 0.3 * mag2) / n of the window at the string's
\* expected frequency.
DetectString(det, si, midi, normalized) ==
    LET e == (det.energy[si] * 6 + normalized * 4) \div 10
        peak == IF e > det.peak_energy[si] THEN e
                ELSE Max((det.peak_energy[si] * 992) \div 1000, PEAK_FLOOR)
        act == IF det.active[si]
               THEN ~(e < det.release_threshold[si])
               ELSE e > det.onset_threshold[si]
    IN  IF OutOfRange(midi)
        THEN [energy |-> 0, peak |-> det.peak_energy[si], active |-> FALSE,
              attack |-> FALSE]
        ELSE [energy |-> e, peak |-> peak, active |-> act,
              attack |-> ~det.active[si] /\ e > det.onset_threshold[si]]

\* StringDetector::detect(sensor, bar_position, engine).  dsp.normalized[i]
\* is the window's normalized energy at string i's expected frequency.
\* Result: the new detector, the returned (active, attacks) and which
\* branch returned.
\* The state and result of a normal pass, from the per-string results r.
NormalPass(det, r) ==
    [det |-> [det EXCEPT !.samples_since_analysis = 0,
                         !.energy = [i \in Strings |-> r[i].energy],
                         !.peak_energy = [i \in Strings |-> r[i].peak],
                         !.active = [i \in Strings |-> r[i].active]],
     active |-> [i \in Strings |-> r[i].active],
     attacks |-> [i \in Strings |-> r[i].attack],
     branch |-> "normal"]

\* detect whose no-bar arm leaves the smoothed energies alone.
detect_NoBarKeepsEnergy(det, sensor, bar_position, dsp) ==
    IF ~det_ready(det)
    THEN [det |-> det, active |-> det.active, attacks |-> AllFalse,
          branch |-> "not_ready"]
    ELSE IF bar_position = NONE
    THEN [det |-> [det EXCEPT !.samples_since_analysis = 0,
                              !.active = AllFalse],
          active |-> AllFalse, attacks |-> AllFalse, branch |-> "no_bar"]
    ELSE IF RmsBelow(Window(det.audio_buf), DET_SILENCE_RMS)
    THEN [det |-> [det EXCEPT !.samples_since_analysis = 0,
                              !.active = AllFalse,
                              !.energy = [i \in Strings |-> @[i] \div 2]],
          active |-> AllFalse, attacks |-> AllFalse, branch |-> "silence"]
    ELSE NormalPass(det,
            [si \in Strings |->
                DetectString(det, si,
                             effective_open_pitches(sensor)[si] + bar_position,
                             dsp.normalized[si])])

\* detect whose silence branch clears the energies as the no-bar branch does.
detect_SilenceZeroes(det, sensor, bar_position, dsp) ==
    IF ~det_ready(det)
    THEN [det |-> det, active |-> det.active, attacks |-> AllFalse,
          branch |-> "not_ready"]
    ELSE IF bar_position = NONE
    THEN [det |-> [det EXCEPT !.samples_since_analysis = 0,
                              !.active = AllFalse,
                              !.energy = [i \in Strings |-> 0]],
          active |-> AllFalse, attacks |-> AllFalse, branch |-> "no_bar"]
    ELSE IF RmsBelow(Window(det.audio_buf), DET_SILENCE_RMS)
    THEN [det |-> [det EXCEPT !.samples_since_analysis = 0,
                              !.active = AllFalse,
                              !.energy = [i \in Strings |-> 0]],
          active |-> AllFalse, attacks |-> AllFalse, branch |-> "silence"]
    ELSE NormalPass(det,
            [si \in Strings |->
                DetectString(det, si,
                             effective_open_pitches(sensor)[si] + bar_position,
                             dsp.normalized[si])])

detect(det, sensor, bar_position, dsp) ==
    IF ~det_ready(det)
    THEN [det |-> det, active |-> det.active, attacks |-> AllFalse,
          branch |-> "not_ready"]
    ELSE IF bar_position = NONE
    THEN [det |-> [det EXCEPT !.samples_since_analysis = 0,
                              !.active = AllFalse,
                              !.energy = [i \in Strings |-> 0]],
          active |-> AllFalse, attacks |-> AllFalse, branch |-> "no_bar"]
    ELSE IF RmsBelow(Window(det.audio_buf), DET_SILENCE_RMS)
    THEN [det |-> [det EXCEPT !.samples_since_analysis = 0,
                              !.active = AllFalse,
                              !.energy = [i \in Strings |-> @[i] \div 2]],
          active |-> AllFalse, attacks |-> AllFalse, branch |-> "silence"]
    ELSE NormalPass(det,
            [si \in Strings |->
                DetectString(det, si,
                             effective_open_pitches(sensor)[si] + bar_position,
                             dsp.normalized[si])])

\* StringDetector::amplitude: (energy / peak_energy).clamp(0.0, 1.0)
amplitude(det) ==
    [i \in Strings |-> Clamp((det.energy[i] * 1000) \div det.peak_energy[i], 0, 1000)]

\* The amplitudes detect returns with the result d: [0.0; 10] from the
\* no-bar branch, self.amplitude() from the others.
detect_amplitude(d) ==
    IF d.branch = "no_bar" THEN [i \in Strings |-> 0] ELSE amplitude(d.det)

----------------------------------------------------------------------------
(* Inputs of the model *)

Rest3 == [j \in Pedals |-> 0]
Rest5 == [j \in Levers |-> 0]

\* (pedals, knee_levers) settings: at rest; pedal A down; pedal A down,
\* pedal B exactly on the 0.5 boundary and lever LKR at 0.8.
ControlSettings ==
    { [pedals |-> Rest3, knee_levers |-> Rest5],
      [pedals |-> [Rest3 EXCEPT ![0] = 1000], knee_levers |-> Rest5],
      [pedals |-> [Rest3 EXCEPT ![0] = 1000, ![1] = 500],
       knee_levers |-> [Rest5 EXCEPT ![1] = 800]] }

SensorFrame(ts, c, b, m) ==
    [timestamp_us |-> ts, pedals |-> c.pedals, knee_levers |-> c.knee_levers,
     volume |-> 700, bar_sensors |-> b, string_active |-> m]

\* (bar readings, ground-truth mask) pairs of the sensor source
BarAndStrings ==
    { << [k \in 0 .. 3 |-> 0], AllFalse >>,
      << [k \in 0 .. 3 |-> 0], Mask({2, 3, 9}) >>,
      << [k \in 0 .. 3 |-> CASE k = 0 -> 100 [] k = 1 -> 800 [] k = 2 -> 100 [] k = 3 -> 0],
         Mask({2, 3, 9}) >> }

SensorFrames(ts) ==
    { SensorFrame(ts, c, bm[1], bm[2]) : c \in ControlSettings, bm \in BarAndStrings }

\* The sensor frames of the concurrent specification: at rest with the bar
\* lifted, and pedal A down with the bar on and three strings sounding.
FewSensorFrames(ts) ==
    { SensorFrame(ts, [pedals |-> Rest3, knee_levers |-> Rest5],
                  [k \in 0 .. 3 |-> 0], AllFalse),
      SensorFrame(ts, [pedals |-> [Rest3 EXCEPT ![0] = 1000], knee_levers |-> Rest5],
                  [k \in 0 .. 3 |-> CASE k = 0 -> 100 [] k = 1 -> 800 [] k = 2 -> 100 [] k = 3 -> 0],
                  Mask({2, 3, 9})) }

\* Audio chunks: n samples of magnitude amp (0.004 lies between the two
\* silence thresholds).
AudioChunks ==
    { [n |-> 4096, amp |-> 500], [n |-> 2048, amp |-> 0], [n |-> 4096, amp |-> 4] }

FewAudioChunks == { [n |-> 4096, amp |-> 500] }

\* What the spectral analysis of a non-silent window can yield: the
\* normalized energy per string and the audio bar estimate.
ZeroEnergy == [i \in Strings |-> 0]
DspNone == [normalized |-> ZeroEnergy, audio |-> [pos |-> NONE, conf |-> 0]]
DspOutcomes ==
    { DspNone,
      [normalized |-> [i \in Strings |-> IF i \in {2, 3, 9} THEN 1000 ELSE 0],
       audio |-> [pos |-> 450, conf |-> 600]],
      [normalized |-> [i \in Strings |-> IF i = 2 THEN 300 ELSE 0],
       audio |-> [pos |-> 1700, conf |-> 400]] }

\* The analysis outcome is an input only when a pass looks at the spectrum.
DspChoices(inf, det) ==
    IF \/ inf_ready(inf) /\ ~RmsBelow(Window(inf.audio_buf), INF_SILENCE_RMS)
       \/ det_ready(det) /\ ~RmsBelow(Window(det.audio_buf), DET_SILENCE_RMS)
    THEN DspOutcomes
    ELSE { DspNone }

----------------------------------------------------------------------------
(* Coordinator: src/src/coordinator.rs *)

\* pedal_string_map with pedal A on strings 5 and 9.
pedal_string_map_ShiftedA == [j \in Pedals |->
    CASE j = 0 -> Mask({4, 8}) [] j = 1 -> Mask({2, 5}) [] j = 2 -> Mask({3, 4})]

pedal_string_map == [j \in Pedals |->
    CASE j = 0 -> Mask({4, 9}) [] j = 1 -> Mask({2, 5}) [] j = 2 -> Mask({3, 4})]

lever_string_map == [j \in Levers |->
    CASE j = 0 -> Mask({3, 7}) [] j = 1 -> Mask({3, 4, 7}) [] j = 2 -> Mask({4, 9})
      [] j = 3 -> Mask({1, 5}) [] j = 4 -> Mask({1, 8})]

\* PedalEngaged counting a pedal exactly on the boundary as engaged.
PedalEngaged_Inclusive(sensor) ==
    [j \in Pedals |-> sensor.pedals[j] >= ENGAGED_THRESHOLD]

PedalEngaged(sensor) == [j \in Pedals |-> sensor.pedals[j] > ENGAGED_THRESHOLD]
LeverEngaged(sensor) == [j \in Levers |-> sensor.knee_levers[j] > ENGAGED_THRESHOLD]

\* InitialAttacks without the edge detection: every active string attacks.
InitialAttacks_Level(audio_mode, string_active, audio_attacks, prev) ==
    IF audio_mode THEN audio_attacks
    ELSE [i \in Strings |-> string_active[i]]

\* lines 109-121: the attacks before the control crossings are applied
InitialAttacks(audio_mode, string_active, audio_attacks, prev) ==
    IF audio_mode THEN audio_attacks
    ELSE [i \in Strings |-> string_active[i] /\ ~prev[i]]

\* CrossingAttacks without the string_active test.
CrossingAttacks_AnyString(attacks, string_active, pedal_engaged, prev_pedal, lever_engaged, prev_lever) ==
    [i \in Strings |->
        \/ attacks[i]
        \/ \E j \in Pedals : pedal_engaged[j] # prev_pedal[j] /\ pedal_string_map[j][i]
        \/ \E j \in Levers : lever_engaged[j] # prev_lever[j] /\ lever_string_map[j][i]]

\* lines 123-157: attacks after the pedal and lever loops
CrossingAttacks(attacks, string_active, pedal_engaged, prev_pedal, lever_engaged, prev_lever) ==
    [i \in Strings |->
        \/ attacks[i]
        \/ \E j \in Pedals : /\ pedal_engaged[j] # prev_pedal[j]
                             /\ string_active[i] /\ pedal_string_map[j][i]
        \/ \E j \in Levers : /\ lever_engaged[j] # prev_lever[j]
                             /\ string_active[i] /\ lever_string_map[j][i]]

\* SelectActive passing the sensor's mask in both modes.
SelectActive_Sensor(audio_mode, sensor, det_active) == sensor.string_active

\* lines 86-102: which mask the frame carries
SelectActive(audio_mode, sensor, det_active) ==
    IF audio_mode THEN det_active ELSE sensor.string_active

\* BuildFrame stamping the frame with its number instead of the sensor time.
BuildFrame_CountStamp(sensor, bar_state, pitches, string_active, attacks, seq) ==
    [ timestamp_us |-> seq,
      pedals |-> sensor.pedals,
      knee_levers |-> sensor.knee_levers,
      volume |-> sensor.volume,
      bar_sensors |-> sensor.bar_sensors,
      bar_position |-> bar_state.position,
      bar_confidence |-> bar_state.confidence,
      bar_source |-> bar_state.source,
      string_pitches_hz |-> pitches,
      string_active |-> string_active,
      attacks |-> attacks,
      seq |-> seq ]

\* lines 160-172
BuildFrame(sensor, bar_state, pitches, string_active, attacks, seq) ==
    [ timestamp_us |-> sensor.timestamp_us,
      pedals |-> sensor.pedals,
      knee_levers |-> sensor.knee_levers,
      volume |-> sensor.volume,
      bar_sensors |-> sensor.bar_sensors,
      bar_position |-> bar_state.position,
      bar_confidence |-> bar_state.confidence,
      bar_source |-> bar_state.source,
      string_pitches_hz |-> pitches,
      string_active |-> string_active,
      attacks |-> attacks,
      seq |-> seq ]

NoFrame == [seq |-> 0]
NoStep == [op |-> "none"]

\* Coordinator::new and the locals of run() before the first event
NewCoordinator ==
    [ inference |-> NewInference, string_detector |-> NewDetector,
      prev_active |-> AllFalse,
      prev_pedal_engaged |-> [j \in Pedals |-> FALSE],
      prev_lever_engaged |-> [j \in Levers |-> FALSE],
      frame |-> NoFrame ]

\* Two coordinators before their first event: `on` built with
\* use_audio_detection = true, `off` with false.
NewTwin == [ on |-> NewCoordinator, off |-> NewCoordinator,
             events |-> 0, ts |-> 0, last |-> "none" ]

\* SerialReader::run has not opened its port
NoSerial == [state |-> "none"]

\* The broadcast loop has not started
NoBroadcaster == [state |-> "none"]

\* main.rs has made the logger's frame channel and the audio-log channel;
\* DataLogger::run has not started and the coordinator has handled nothing.
NoLogger ==
    [ pc |-> "start",           \* logger: "start", "drain", "recv", "done"
      coord |-> "run",          \* coordinator: "run", "exited" (senders dropped)
      events |-> 0,             \* events the coordinator has handled
      frame_q |-> << >>,        \* frames waiting on the logger's frame channel
      audio_q |-> << >>,        \* chunk sizes waiting on the audio-log channel
      forwarded |-> 0,          \* samples the coordinator sent on audio_log_tx
      audio_sample_count |-> 0, \* samples written to audio_raw.bin
      frame_count |-> 0 ]       \* frames written to frames.jsonl

\* No session file has been opened
NoSession == [state |-> "none"]

\* AudioCapture::start has returned: the stream plays, the inner channel is
\* empty, the worker thread waits on it and no callback is running.
NoCallback == [id |-> 0]
NewCapture == [ raw_q |-> << >>,        \* inner channel raw_tx -> raw_rx
                stream |-> TRUE,        \* the cpal Stream is alive
                cb |-> NoCallback,      \* callback in progress: its mono chunk
                calls |-> 0,            \* callbacks entered so far
                dropped |-> {},         \* chunks try_send did not enqueue
                got |-> << >>,          \* chunks the worker received, in order
                recv |-> << >>,         \* their samples, as runs [id, n]
                held |-> << >>,         \* worker: the samples in accum, as runs
                sent |-> << >>,         \* the sample runs of each event sent on tx
                accum |-> 0,            \* worker: accum.len()
                w_pc |-> "recv",        \* worker: "recv", "emit", "done"
                tx_connected |-> TRUE,  \* the receiver of tx still exists
                emitted |-> 0,          \* InputEvent::Audio sent on tx
                last |-> NoCallback ]   \* the last callback that returned

\* Observation: some frame built so far carried a bar position.
HadBar == IF step = NoStep THEN FALSE ELSE step.has_bar

\* The state after Coordinator::new(...).with_audio_detection(mode), with
\* the channels empty and every sink's receiver alive.
Init ==
    /\ input_q = << >>
    /\ input_open = TRUE
    /\ produced = 0
    /\ last_ts = 0
    /\ frame_q = [k \in Sinks |-> << >>]
    /\ rx_alive = [k \in Sinks |-> TRUE]
    /\ received = [k \in Sinks |-> 0]
    /\ pc = "recv"
    /\ send_idx = 1
    /\ frame = NoFrame
    /\ use_audio_detection \in BOOLEAN
    /\ prev_active = AllFalse
    /\ prev_pedal_engaged = [j \in Pedals |-> FALSE]
    /\ prev_lever_engaged = [j \in Levers |-> FALSE]
    /\ inference = NewInference
    /\ string_detector = NewDetector
    /\ taken = << >>
    /\ step = NoStep
    /\ audio_capture = NewCapture
    /\ session = NoSession
    /\ sink_pc = [k \in Sinks |-> "start"]
    /\ serial = NoSerial
    /\ broadcaster = NoBroadcaster
    /\ logger = NoLogger
    /\ twin = NewTwin

chanVars == << input_q, input_open, frame_q, rx_alive, received >>

\* run(), InputEvent::Sensor arm up to the frame (lines 75-172): the
\* coordinator's state after the sensor frame, and the frame to send.
HandleSensor(sensor) ==
    \E dsp \in DspChoices(inference, string_detector) :
    \E bar \in { infer(inference, sensor, dsp) } :
    \E d \in { detect(string_detector, sensor, bar.state.position, dsp) } :
    \E string_active \in { SelectActive(use_audio_detection, sensor, d.active) } :
    \E initial \in { InitialAttacks(use_audio_detection, string_active,
                                    d.attacks, prev_active) } :
    \E attacks \in { CrossingAttacks(initial, string_active,
                                     PedalEngaged(sensor), prev_pedal_engaged,
                                     LeverEngaged(sensor), prev_lever_engaged) } :
            /\ inference' = bar.inf
            /\ string_detector' = d.det
            /\ prev_pedal_engaged' = PedalEngaged(sensor)
            /\ prev_lever_engaged' = LeverEngaged(sensor)
            /\ prev_active' = string_active
            /\ frame' = BuildFrame(sensor, bar.state,
                                   compute_pitches(sensor, bar.state.position),
                                   string_active, attacks, Len(taken) + 1)
            /\ taken' = Append(taken, sensor.timestamp_us)
            /\ step' = [ op |-> "sensor", sensor |-> sensor,
                         prev_frame |-> frame,
                         det_before |-> string_detector.active,
                         det_active |-> d.active, det_attacks |-> d.attacks,
                         branch |-> d.branch, initial |-> initial,
                         bar_ran |-> bar.ran,
                         audio_est |-> bar.audio_est,
                         had_bar |-> HadBar,
                         has_bar |-> HadBar \/ bar.state.position # NONE ]
            /\ UNCHANGED use_audio_detection

\* run(), InputEvent::Audio arm (lines 185-192).
HandleAudio(chunk) ==
    /\ inference' = inf_push_audio(inference, chunk)
    /\ string_detector' = det_push_audio(string_detector, chunk)
    /\ step' = [op |-> "audio", has_bar |-> HadBar]
    /\ UNCHANGED << frame, use_audio_detection, prev_active, prev_pedal_engaged,
                    prev_lever_engaged, taken >>

\* A source sends a SensorFrame on the input channel (blocking send).
SourceSensor ==
    /\ UNCHANGED ioVars
    /\ input_open /\ produced < MaxEvents /\ Len(input_q) < InputCap
    /\ \E d \in {0, 1} : \E s \in FewSensorFrames(last_ts + d) :
         /\ input_q' = Append(input_q, [kind |-> "Sensor", sensor |-> s])
         /\ last_ts' = last_ts + d
    /\ produced' = produced + 1
    /\ UNCHANGED << input_open, frame_q, rx_alive, received, pc, send_idx, frame,
                    use_audio_detection, prev_active, prev_pedal_engaged,
                    prev_lever_engaged, inference, string_detector, taken, step >>

\* A source sends an AudioChunk on the input channel.
SourceAudio ==
    /\ UNCHANGED ioVars
    /\ input_open /\ produced < MaxEvents /\ Len(input_q) < InputCap
    /\ \E c \in FewAudioChunks :
         input_q' = Append(input_q, [kind |-> "Audio", chunk |-> c])
    /\ produced' = produced + 1
    /\ UNCHANGED << input_open, last_ts, frame_q, rx_alive, received, pc, send_idx,
                    frame, use_audio_detection, prev_active, prev_pedal_engaged,
                    prev_lever_engaged, inference, string_detector, taken, step >>

\* Every sender of the input channel is dropped.
CloseInput ==
    /\ UNCHANGED ioVars
    /\ input_open
    /\ input_open' = FALSE
    /\ UNCHANGED << input_q, produced, last_ts, frame_q, rx_alive, received, pc,
                    send_idx, frame, use_audio_detection, prev_active,
                    prev_pedal_engaged, prev_lever_engaged, inference,
                    string_detector, taken, step >>

\* run(): a SensorFrame is taken from the input channel and handled.
CoordSensor ==
    /\ UNCHANGED ioVars
    /\ pc = "recv" /\ input_q # << >> /\ Head(input_q).kind = "Sensor"
    /\ HandleSensor(Head(input_q).sensor)
    /\ input_q' = Tail(input_q)
    /\ pc' = "send"
    /\ send_idx' = 1
    /\ UNCHANGED << input_open, produced, last_ts, frame_q, rx_alive, received >>

\* CoordSend leaving the send loop at the first send that fails.
CoordSend_StopOnError ==
    /\ UNCHANGED ioVars
    /\ pc = "send"
    /\ \/ /\ ~rx_alive[send_idx]
          /\ UNCHANGED frame_q
          /\ send_idx' = 1 /\ pc' = "recv"
       \/ /\ rx_alive[send_idx]
          /\ Len(frame_q[send_idx]) < SinkCap
          /\ frame_q' = [frame_q EXCEPT ![send_idx] = Append(@, frame)]
          /\ IF send_idx < NumSinks
             THEN /\ send_idx' = send_idx + 1 /\ pc' = "send"
             ELSE /\ send_idx' = 1 /\ pc' = "recv"
    /\ UNCHANGED << input_q, input_open, produced, last_ts, rx_alive, received,
                    frame, use_audio_detection, prev_active, prev_pedal_engaged,
                    prev_lever_engaged, inference, string_detector, taken, step >>

\* run(), one iteration of `for tx in &self.frame_txs { let _ = tx.send(..) }`
\* (lines 174-176).  Sender::send on a bounded channel waits while the
\* channel is full and returns Err, which is ignored, when the receiver is gone.
CoordSend ==
    /\ UNCHANGED ioVars
    /\ pc = "send"
    /\ \/ /\ ~rx_alive[send_idx]
          /\ UNCHANGED frame_q
       \/ /\ rx_alive[send_idx]
          /\ Len(frame_q[send_idx]) < SinkCap
          /\ frame_q' = [frame_q EXCEPT ![send_idx] = Append(@, frame)]
    /\ IF send_idx < NumSinks
       THEN /\ send_idx' = send_idx + 1 /\ pc' = "send"
       ELSE /\ send_idx' = 1 /\ pc' = "recv"
    /\ UNCHANGED << input_q, input_open, produced, last_ts, rx_alive, received,
                    frame, use_audio_detection, prev_active, prev_pedal_engaged,
                    prev_lever_engaged, inference, string_detector, taken, step >>

\* run(): an AudioChunk is taken from the input channel and handled.
CoordAudio ==
    /\ UNCHANGED ioVars
    /\ pc = "recv" /\ input_q # << >> /\ Head(input_q).kind = "Audio"
    /\ HandleAudio(Head(input_q).chunk)
    /\ input_q' = Tail(input_q)
    /\ UNCHANGED << input_open, produced, last_ts, frame_q, rx_alive, received,
                    pc, send_idx >>

\* run(): input_rx.iter() ends once the channel is empty and disconnected.
CoordExit ==
    /\ UNCHANGED ioVars
    /\ pc = "recv" /\ input_q = << >> /\ ~input_open
    /\ pc' = "done"
    /\ UNCHANGED << input_q, input_open, produced, last_ts, frame_q, rx_alive,
                    received, send_idx, frame, use_audio_detection, prev_active,
                    prev_pedal_engaged, prev_lever_engaged, inference,
                    string_detector, taken, step >>

\* The consumer of sink k receives the next frame (received: its seq).
SinkRecv(k) ==
    /\ UNCHANGED ioVars
    /\ rx_alive[k] /\ frame_q[k] # << >>
    /\ received' = [received EXCEPT ![k] = Head(frame_q[k]).seq]
    /\ frame_q' = [frame_q EXCEPT ![k] = Tail(@)]
    /\ UNCHANGED << input_q, input_open, produced, last_ts, rx_alive, pc, send_idx,
                    frame, use_audio_detection, prev_active, prev_pedal_engaged,
                    prev_lever_engaged, inference, string_detector, taken, step >>

\* The receiver of sink k is dropped; the frames still queued go with it.
SinkDrop(k) ==
    /\ UNCHANGED ioVars
    /\ rx_alive[k]
    /\ rx_alive' = [rx_alive EXCEPT ![k] = FALSE]
    /\ frame_q' = [frame_q EXCEPT ![k] = << >>]
    /\ UNCHANGED << input_q, input_open, produced, last_ts, received, pc, send_idx,
                    frame, use_audio_detection, prev_active, prev_pedal_engaged,
                    prev_lever_engaged, inference, string_detector, taken, step >>

Next ==
    \/ SourceSensor
    \/ SourceAudio
    \/ CloseInput
    \/ CoordSensor
    \/ CoordSend
    \/ CoordAudio
    \/ CoordExit
    \/ \E k \in Sinks : SinkRecv(k)
    \/ \E k \in Sinks : SinkDrop(k)

Spec == Init /\ [][Next]_vars

----------------------------------------------------------------------------
(* run_pipeline of tests/integration.rs: the events are fed to a           *)
(* coordinator whose channels are large enough never to fill, so it        *)
(* handles them one after the other and its single sink collects every     *)
(* frame.                                                                  *)

PipeSensor ==
    /\ UNCHANGED ioVars
    /\ produced < MaxPipeEvents
    /\ \E s \in SensorFrames(last_ts + 1) : HandleSensor(s)
    /\ last_ts' = last_ts + 1
    /\ produced' = produced + 1
    /\ UNCHANGED << chanVars, pc, send_idx >>

PipeAudio ==
    /\ UNCHANGED ioVars
    /\ produced < MaxPipeEvents
    /\ \E c \in AudioChunks : HandleAudio(c)
    /\ produced' = produced + 1
    /\ UNCHANGED << chanVars, pc, send_idx, last_ts >>

PipeNext == PipeSensor \/ PipeAudio

PipeSpec == Init /\ [][PipeNext]_vars

----------------------------------------------------------------------------
(* The string detector on its own: push_audio, detect and reset applied   *)
(* in any order to a detector built by StringDetector::new(), with or     *)
(* without with_thresholds.                                                *)

\* bar_position arguments of detect
BarPositions == { NONE, 444 }

\* Analysis outcomes of the detector's passes: those of DspOutcomes and a
\* sustained note on string 3 whose normalized energy (0.04) is the smoothed
\* energy a first pass at 0.1 leaves.
DetDspOutcomes ==
    DspOutcomes \cup
        { [normalized |-> [i \in Strings |-> IF i = 2 THEN 400 ELSE 0],
           audio |-> [pos |-> 450, conf |-> 600]] }

RestFrame == SensorFrame(0, [pedals |-> Rest3, knee_levers |-> Rest5],
                         [k \in 0 .. 3 |-> 0], AllFalse)

DetInit == Init /\ use_audio_detection = FALSE

\* Calibration records (calibration.json): none of the strings; the three
\* first strings as the calibrator writes them (release = 0.4 onset); all
\* ten strings; and a record whose third string has release above onset.
Calibrations ==
    { << >>,
      [a \in 1 .. 3 |-> [onset |-> 150, release |-> 60]],
      [a \in 1 .. 10 |-> [onset |-> 300, release |-> 120]],
      [a \in 1 .. 3 |-> IF a = 3 THEN [onset |-> 100, release |-> 150]
                                  ELSE [onset |-> 300, release |-> 120]] }

\* The calibration record the detector was built with (none: no string).
StepCal == IF step = NoStep THEN << >> ELSE step.cal

\* main(): the detector is given the thresholds of the calibration file
\* before the coordinator runs.
DetWithThresholds ==
    /\ UNCHANGED ioVars
    /\ step = NoStep
    /\ \E cal \in Calibrations :
         /\ string_detector' = with_thresholds(string_detector,
                                               onset_thresholds(cal),
                                               release_thresholds(cal))
         /\ step' = [ op |-> "with_thresholds", before |-> string_detector,
                      onsets |-> 0, cal |-> cal ]
    /\ UNCHANGED << chanVars, produced, last_ts, pc, send_idx, frame,
                    use_audio_detection, prev_active, prev_pedal_engaged,
                    prev_lever_engaged, inference, taken >>

DetReset ==
    /\ UNCHANGED ioVars
    /\ produced < MaxOps
    /\ string_detector' = reset(string_detector)
    /\ step' = [ op |-> "reset", before |-> string_detector,
                 onsets |-> IF step = NoStep THEN 0 ELSE step.onsets,
                 cal |-> StepCal ]
    /\ produced' = produced + 1
    /\ UNCHANGED << chanVars, last_ts, pc, send_idx, frame, use_audio_detection,
                    prev_active, prev_pedal_engaged, prev_lever_engaged,
                    inference, taken >>

DetPush ==
    /\ UNCHANGED ioVars
    /\ produced < MaxOps
    /\ \E c \in AudioChunks :
         /\ string_detector' = det_push_audio(string_detector, c)
         /\ step' = [ op |-> "push", chunk |-> c, before |-> string_detector,
                      onsets |-> IF step = NoStep THEN 0 ELSE step.onsets,
                      cal |-> StepCal ]
    /\ produced' = produced + 1
    /\ UNCHANGED << chanVars, last_ts, pc, send_idx, frame, use_audio_detection,
                    prev_active, prev_pedal_engaged, prev_lever_engaged,
                    inference, taken >>

DetDetect ==
    /\ UNCHANGED ioVars
    /\ produced < MaxOps
    /\ \E bp \in BarPositions :
       \E dsp \in (IF det_ready(string_detector) /\ bp # NONE
                      /\ ~RmsBelow(Window(string_detector.audio_buf), DET_SILENCE_RMS)
                   THEN DetDspOutcomes ELSE { DspNone }) :
       \E d \in { detect(string_detector, RestFrame, bp, dsp) } :
         /\ string_detector' = d.det
         /\ step' = [ op |-> "detect", bar_position |-> bp,
                      before |-> string_detector,
                      active |-> d.active, attacks |-> d.attacks,
                      branch |-> d.branch,
                      amplitude |-> detect_amplitude(d),
                      onsets |-> (IF step = NoStep THEN 0 ELSE step.onsets)
                                 + (IF d.attacks[2] THEN 1 ELSE 0),
                      cal |-> StepCal ]
    /\ produced' = produced + 1
    /\ UNCHANGED << chanVars, last_ts, pc, send_idx, frame, use_audio_detection,
                    prev_active, prev_pedal_engaged, prev_lever_engaged,
                    inference, taken >>

DetNext == DetWithThresholds \/ DetPush \/ DetDetect \/ DetReset

DetSpec == DetInit /\ [][DetNext]_vars

----------------------------------------------------------------------------
(* The bar inferencer on its own: push_audio and infer applied in any      *)
(* order to an inferencer built by BarInference::new().                    *)

InfInit == Init /\ use_audio_detection = FALSE

\* Template matches at the ends of the candidate range: best candidate
\* fret 0 with the parabola's vertex below it and a nearly flat score
\* profile; best candidate fret 24 with the vertex above it and a sharp
\* profile.
EdgeDspOutcomes ==
    { [normalized |-> ZeroEnergy,
       audio |-> [pos |-> refine_fret(0, -500), conf |-> audio_confidence(1200)]],
      [normalized |-> ZeroEnergy,
       audio |-> [pos |-> refine_fret(2400, 500), conf |-> audio_confidence(250000)]] }

InfDspOutcomes == DspOutcomes \cup EdgeDspOutcomes

\* Hall readings of the inferencer's sensor frames: those of BarAndStrings,
\* all four sensors saturated, and only the last sensor saturated.
InfBarReadings ==
    { bm[1] : bm \in BarAndStrings }
      \cup { [k \in 0 .. 3 |-> 1000], [k \in 0 .. 3 |-> IF k = 3 THEN 1000 ELSE 0] }

InfPush ==
    /\ UNCHANGED ioVars
    /\ produced < MaxOps
    /\ \E c \in AudioChunks :
         /\ inference' = inf_push_audio(inference, c)
         /\ step' = [ op |-> "push", chunk |-> c, before |-> inference ]
    /\ produced' = produced + 1
    /\ UNCHANGED << chanVars, last_ts, pc, send_idx, frame, use_audio_detection,
                    prev_active, prev_pedal_engaged, prev_lever_engaged,
                    string_detector, taken >>

InfInfer ==
    /\ UNCHANGED ioVars
    /\ produced < MaxOps
    /\ \E b \in InfBarReadings :
       \E dsp \in (IF inf_ready(inference)
                      /\ ~RmsBelow(Window(inference.audio_buf), INF_SILENCE_RMS)
                   THEN InfDspOutcomes ELSE { DspNone }) :
       \E r \in { infer(inference,
                        SensorFrame(0, [pedals |-> Rest3, knee_levers |-> Rest5],
                                    b, AllFalse),
                        dsp) } :
         /\ inference' = r.inf
         /\ step' = [ op |-> "infer", before |-> inference, state |-> r.state,
                      sensor_est |-> r.sensor_est, audio_est |-> r.audio_est,
                      fused |-> r.fused, ran |-> r.ran, readings |-> b,
                      after_gap |-> /\ step.op = "infer"
                                    /\ step.state.position = NONE
                                    /\ step.before.last_position # NONE ]
    /\ produced' = produced + 1
    /\ UNCHANGED << chanVars, last_ts, pc, send_idx, frame, use_audio_detection,
                    prev_active, prev_pedal_engaged, prev_lever_engaged,
                    string_detector, taken >>

InfNext == InfPush \/ InfInfer

InfSpec == InfInit /\ [][InfNext]_vars

----------------------------------------------------------------------------
(* The copedant engine on its own: effective_open_pitches and              *)
(* compute_pitches applied to any engagement of pedals A and C and levers  *)
(* LKR and RKL, and any bar position.                                      *)

Engagements == { 0, 250, 1000 }

CopSensors ==
    { SensorFrame(0, [pedals |-> [Rest3 EXCEPT ![0] = a, ![2] = c],
                      knee_levers |-> [Rest5 EXCEPT ![1] = l, ![3] = r]],
                  [k \in 0 .. 3 |-> 0], AllFalse) :
        a \in Engagements, c \in Engagements, l \in Engagements, r \in Engagements }

BarFrets == { NONE, 0, 350, 1200 }

CopInit == Init /\ use_audio_detection = FALSE

CopPitches ==
    /\ UNCHANGED ioVars
    /\ \E sensor \in CopSensors : \E bar_fret \in BarFrets :
         step' = [ op |-> "pitches", sensor |-> sensor, bar_fret |-> bar_fret,
                   open |-> effective_open_pitches(sensor),
                   hz |-> compute_pitches(sensor, bar_fret) ]
    /\ UNCHANGED << chanVars, produced, last_ts, pc, send_idx, frame,
                    use_audio_detection, prev_active, prev_pedal_engaged,
                    prev_lever_engaged, inference, string_detector, taken >>

CopNext == CopPitches

CopSpec == CopInit /\ [][CopNext]_vars

----------------------------------------------------------------------------
(* Compact serialization: src/src/types.rs.  A CaptureFrame is converted   *)
(* to a CompactFrame and back.                                             *)

\* impl From<&CaptureFrame> for CompactFrame
to_compact(f) ==
    [ t |-> f.timestamp_us, p |-> f.pedals, kl |-> f.knee_levers, v |-> f.volume,
      bs |-> f.bar_sensors, bp |-> f.bar_position, bc |-> f.bar_confidence,
      bx |-> f.bar_source, hz |-> f.string_pitches_hz, sa |-> f.string_active,
      at |-> f.attacks, am |-> f.string_amplitude ]

\* from_compact with the two string masks exchanged.
from_compact_SwappedMasks(c) ==
    [ timestamp_us |-> c.t, pedals |-> c.p, knee_levers |-> c.kl, volume |-> c.v,
      bar_sensors |-> c.bs, bar_position |-> c.bp, bar_confidence |-> c.bc,
      bar_source |-> c.bx, string_pitches_hz |-> c.hz, string_active |-> c.at,
      attacks |-> c.sa, string_amplitude |-> c.am ]

\* impl From<CompactFrame> for CaptureFrame
from_compact(c) ==
    [ timestamp_us |-> c.t, pedals |-> c.p, knee_levers |-> c.kl, volume |-> c.v,
      bar_sensors |-> c.bs, bar_position |-> c.bp, bar_confidence |-> c.bc,
      bar_source |-> c.bx, string_pitches_hz |-> c.hz, string_active |-> c.sa,
      attacks |-> c.at, string_amplitude |-> c.am ]

\* (bar_position, bar_confidence, bar_source) of the frames converted
BarStates ==
    { [position |-> NONE, confidence |-> 0, source |-> "None"],
      [position |-> 300, confidence |-> 800, source |-> "Sensor"],
      [position |-> 450, confidence |-> 420, source |-> "Audio"],
      [position |-> 445, confidence |-> 700, source |-> "Fused"] }

\* (string_active, attacks) of the frames converted
ActiveAndAttacks ==
    { << AllFalse, AllFalse >>, << Mask({2, 3, 9}), AllFalse >>,
      << Mask({2, 3, 9}), Mask({3}) >> }

Amplitudes ==
    { [i \in Strings |-> 0], [i \in Strings |-> IF i \in {2, 3, 9} THEN 1000 - 100 * i ELSE 0] }

CaptureFrames ==
    { [ timestamp_us |-> ts,
        pedals |-> c.pedals, knee_levers |-> c.knee_levers, volume |-> 700,
        bar_sensors |-> [k \in 0 .. 3 |-> IF b.source \in {"Sensor", "Fused"} /\ k = 1
                                          THEN 800 ELSE 0],
        bar_position |-> b.position, bar_confidence |-> b.confidence,
        bar_source |-> b.source,
        string_pitches_hz |-> compute_pitches(c, b.position),
        string_active |-> m[1], attacks |-> m[2], string_amplitude |-> am ] :
      ts \in {0, 1000}, c \in ControlSettings, b \in BarStates,
      m \in ActiveAndAttacks, am \in Amplitudes }

ConvInit == Init /\ use_audio_detection = FALSE

Convert ==
    /\ UNCHANGED ioVars
    /\ \E f \in CaptureFrames : \E c \in { to_compact(f) } :
         step' = [ op |-> "convert", frame |-> f, compact |-> c,
                   back |-> from_compact(c) ]
    /\ UNCHANGED << chanVars, produced, last_ts, pc, send_idx, frame,
                    use_audio_detection, prev_active, prev_pedal_engaged,
                    prev_lever_engaged, inference, string_detector, taken >>

ConvNext == Convert

ConvSpec == ConvInit /\ [][ConvNext]_vars

----------------------------------------------------------------------------
(* Live audio capture: src/src/audio_input.rs.  The cpal callback hands    *)
(* mono chunks to a worker thread over a bounded inner channel; the worker *)
(* cuts them into CHUNK_SIZE events for the input channel, which the       *)
(* coordinator empties.                                                    *)

\* Sender::send on a bounded channel: waits while the channel is full.
try_send_Blocking(q, item, cap, connected) ==
    IF ~connected THEN [q |-> q, ok |-> FALSE, returns |-> TRUE]
    ELSE IF Len(q) >= cap THEN [q |-> q, ok |-> FALSE, returns |-> FALSE]
    ELSE [q |-> Append(q, item), ok |-> TRUE, returns |-> TRUE]

\* Sender::try_send on a bounded channel: Err(Full) or Err(Disconnected)
\* at once, the message is not enqueued.
try_send(q, item, cap, connected) ==
    IF ~connected THEN [q |-> q, ok |-> FALSE, returns |-> TRUE]
    ELSE IF Len(q) >= cap THEN [q |-> q, ok |-> FALSE, returns |-> TRUE]
    ELSE [q |-> Append(q, item), ok |-> TRUE, returns |-> TRUE]

\* Frames per callback buffer, after the mixdown to mono
CallbackSizes == { 512, 2048 }

\* Samples are kept as runs [id, n]: n samples of callback chunk id.
RECURSIVE RunsLen(_)
RunsLen(runs) ==
    IF runs = << >> THEN 0 ELSE Head(runs).n + RunsLen(Tail(runs))

\* The first k samples of runs, and what is left after them.
RECURSIVE TakeRuns(_, _)
TakeRuns(runs, k) ==
    IF k = 0 \/ runs = << >> THEN << >>
    ELSE IF Head(runs).n <= k
         THEN << Head(runs) >> \o TakeRuns(Tail(runs), k - Head(runs).n)
         ELSE << [Head(runs) EXCEPT !.n = k] >>

RECURSIVE DropRuns(_, _)
DropRuns(runs, k) ==
    IF k = 0 \/ runs = << >> THEN runs
    ELSE IF Head(runs).n <= k
         THEN DropRuns(Tail(runs), k - Head(runs).n)
         ELSE << [Head(runs) EXCEPT !.n = @ - k] >> \o Tail(runs)

\* A drain that empties the accumulator whatever k is.
accum_drain_All(runs, k) == [ samples |-> runs, rest |-> << >> ]

\* `accum.drain(..CHUNK_SIZE).collect()`: the first k samples leave accum.
accum_drain(runs, k) ==
    [ samples |-> TakeRuns(runs, k), rest |-> DropRuns(runs, k) ]

capVars == << last_ts, frame_q, rx_alive, received, send_idx, frame,
              use_audio_detection, prev_active, prev_pedal_engaged,
              prev_lever_engaged, taken, session, sink_pc, extVars >>

\* cpal calls the data callback: the buffer is mixed down to mono.
CallbackEnter ==
    /\ audio_capture.stream /\ audio_capture.cb = NoCallback
    /\ audio_capture.calls < MaxCallbacks
    /\ \E n \in CallbackSizes :
         audio_capture' = [audio_capture EXCEPT
                              !.calls = @ + 1,
                              !.cb = [id |-> audio_capture.calls + 1, n |-> n]]
    /\ UNCHANGED << capVars, input_q, input_open, produced, pc, inference,
                    string_detector, step >>

\* The callback's `let _ = raw_tx.try_send(mono);` and its return.
CallbackSend ==
    /\ audio_capture.cb # NoCallback
    /\ \E r \in { try_send(audio_capture.raw_q, audio_capture.cb, RawCap,
                            audio_capture.w_pc # "done") } :
         /\ r.returns
         /\ audio_capture' = [audio_capture EXCEPT
                !.raw_q = r.q,
                !.dropped = IF r.ok THEN @ ELSE @ \cup { audio_capture.cb.id },
                !.cb = NoCallback,
                !.last = [ id |-> audio_capture.cb.id, ok |-> r.ok,
                           was_full |-> Len(audio_capture.raw_q) >= RawCap ]]
    /\ UNCHANGED << capVars, input_q, input_open, produced, pc, inference,
                    string_detector, step >>

\* The AudioCapture is dropped: the stream stops and its raw_tx goes.
CaptureDrop ==
    /\ audio_capture.stream /\ audio_capture.cb = NoCallback
    /\ audio_capture' = [audio_capture EXCEPT !.stream = FALSE]
    /\ UNCHANGED << capVars, input_q, input_open, produced, pc, inference,
                    string_detector, step >>

\* Worker: `for chunk in raw_rx` takes a chunk, accum.extend_from_slice.
WorkerRecv ==
    /\ audio_capture.w_pc = "recv" /\ audio_capture.raw_q # << >>
    /\ audio_capture' = [audio_capture EXCEPT
           !.raw_q = Tail(@),
           !.got = Append(@, Head(audio_capture.raw_q).id),
           !.recv = Append(@, Head(audio_capture.raw_q)),
           !.held = Append(@, Head(audio_capture.raw_q)),
           !.accum = @ + Head(audio_capture.raw_q).n,
           !.w_pc = IF audio_capture.accum + Head(audio_capture.raw_q).n >= CHUNK_SIZE
                    THEN "emit" ELSE "recv"]
    /\ UNCHANGED << capVars, input_q, input_open, produced, pc, inference,
                    string_detector, step >>

\* Worker: one turn of `while accum.len() >= CHUNK_SIZE`: CHUNK_SIZE samples
\* are drained and sent on tx (a blocking send); the thread returns when
\* the receiver is gone.
WorkerEmit ==
    /\ audio_capture.w_pc = "emit"
    /\ \E d \in { accum_drain(audio_capture.held, CHUNK_SIZE) } :
        \/ /\ ~audio_capture.tx_connected
           /\ audio_capture' = [audio_capture EXCEPT
                  !.held = d.rest,
                  !.accum = RunsLen(d.rest),
                  !.w_pc = "done"]
           /\ UNCHANGED input_q
        \/ /\ audio_capture.tx_connected
           /\ Len(input_q) < InputCap
           /\ input_q' = Append(input_q, [kind |-> "Audio",
                                          chunk |-> [n |-> RunsLen(d.samples),
                                                     amp |-> 500]])
           /\ audio_capture' = [audio_capture EXCEPT
                  !.held = d.rest,
                  !.accum = RunsLen(d.rest),
                  !.sent = Append(@, d.samples),
                  !.emitted = @ + 1,
                  !.w_pc = IF RunsLen(d.rest) >= CHUNK_SIZE
                           THEN "emit" ELSE "recv"]
    /\ UNCHANGED << capVars, input_open, produced, pc, inference,
                    string_detector, step >>

\* Worker: raw_rx's iteration ends once the channel is empty and the
\* stream, the last holder of raw_tx, is gone.
WorkerExit ==
    /\ audio_capture.w_pc = "recv" /\ audio_capture.raw_q = << >>
    /\ ~audio_capture.stream
    /\ audio_capture' = [audio_capture EXCEPT !.w_pc = "done"]
    /\ UNCHANGED << capVars, input_q, input_open, produced, pc, inference,
                    string_detector, step >>

\* The consumer of the input channel ends and drops its receiver.
ReceiverDrop ==
    /\ audio_capture.tx_connected
    /\ audio_capture' = [audio_capture EXCEPT !.tx_connected = FALSE]
    /\ input_q' = << >>
    /\ pc' = "done"
    /\ UNCHANGED << capVars, input_open, produced, inference,
                    string_detector, step >>

CaptureNext ==
    \/ CallbackEnter
    \/ CallbackSend
    \/ CaptureDrop
    \/ WorkerRecv
    \/ WorkerEmit
    \/ WorkerExit
    \/ ReceiverDrop
    \/ CoordAudio

CaptureInit == Init /\ use_audio_detection = TRUE

CaptureSpec == CaptureInit /\ [][CaptureNext]_vars

----------------------------------------------------------------------------
(* SessionReader (jsonl_reader.rs): a recorded session is a header line     *)
(* followed by one compact frame per line.  A line is a record whose kind   *)
(* says what its text is: "frame" (the JSON of the CompactFrame c),         *)
(* "header" (a JSON object with an optional format field), "bad" (text that *)
(* is not JSON), "blank" (white space only), "unreadable" (bytes that are   *)
(* not UTF-8: read_line consumes them and returns an error).                *)

HeaderLines ==
    { [kind |-> "header", format |-> "steel-capture"],
      [kind |-> "header", format |-> "something-else"],
      [kind |-> "header", format |-> "missing"],
      [kind |-> "bad"], [kind |-> "blank"], [kind |-> "unreadable"] }

\* The compact frames recorded in the session files
SessionFrames ==
    { to_compact(f) : f \in { g \in CaptureFrames :
                                /\ g.pedals = Rest3 /\ g.knee_levers = Rest5
                                /\ g.bar_source = "Fused"
                                /\ g.attacks = Mask({3})
                                /\ g.string_amplitude[2] > 0 } }

FrameLines ==
    { [kind |-> "frame", c |-> c] : c \in SessionFrames }
        \cup { [kind |-> "header", format |-> "steel-capture"],
               [kind |-> "bad"], [kind |-> "blank"], [kind |-> "unreadable"] }

RECURSIVE SeqsUpTo(_, _)
SeqsUpTo(S, n) ==
    IF n = 0 THEN { << >> }
    ELSE LET shorter == SeqsUpTo(S, n - 1)
         IN  shorter \cup { Append(q, x) : q \in { r \in shorter : Len(r) = n - 1 }, x \in S }

\* The session files read: empty, or a first line and up to MaxLines lines
SessionFiles ==
    { << >> } \cup { << h >> \o body : h \in HeaderLines, body \in SeqsUpTo(FrameLines, MaxLines) }

\* str::trim on the text of the lines held in a buffer
RECURSIVE trim(_)
trim(buf) ==
    IF buf = << >> THEN buf
    ELSE IF Head(buf).kind = "blank" THEN trim(Tail(buf))
    ELSE IF buf[Len(buf)].kind = "blank" THEN trim(SubSeq(buf, 1, Len(buf) - 1))
    ELSE buf

\* BufRead::read_line: appends the next line to buf; Ok(0) at end of input;
\* an error, with the bytes consumed and buf as it was, for an unreadable line.
read_line(lines, pos, buf) ==
    IF pos = Len(lines) THEN [tag |-> "Ok", n |-> 0, pos |-> pos, buf |-> buf]
    ELSE IF lines[pos + 1].kind = "unreadable"
         THEN [tag |-> "Err", n |-> 0, pos |-> pos + 1, buf |-> buf]
         ELSE [tag |-> "Ok", n |-> 1, pos |-> pos + 1, buf |-> Append(buf, lines[pos + 1])]

\* serde_json::from_str::<CompactFrame>(trimmed).map(CaptureFrame::from)
parse_frame(trimmed) ==
    IF Len(trimmed) = 1 /\ trimmed[1].kind = "frame"
    THEN [tag |-> "Ok", frame |-> from_compact(trimmed[1].c)]
    ELSE [tag |-> "Err", err |-> "parse frame"]

\* SessionReader::open
open(file) ==
    LET rl == read_line(file, 0, << >>)
        first_line == trim(rl.buf)
    IN  IF rl.tag = "Err" THEN [state |-> "failed", err |-> "read header"]
        ELSE IF first_line = << >> THEN [state |-> "failed", err |-> "empty file"]
        ELSE IF Len(first_line) # 1 \/ first_line[1].kind = "bad"
             THEN [state |-> "failed", err |-> "parse header"]
        ELSE IF first_line[1].kind = "frame" \/ first_line[1].format = "missing"
             THEN [state |-> "failed", err |-> "missing format field"]
        ELSE IF first_line[1].format # "steel-capture"
             THEN [state |-> "failed", err |-> "unknown format"]
        ELSE [state |-> "open",
              reader |-> [lines |-> file, pos |-> rl.pos, line_buf |-> << >>],
              op |-> "open", before |-> 0, last |-> [tag |-> "None"],
              frames |-> << >>]

RECURSIVE next_frame_NoClear(_)
RECURSIVE next_frame(_)
\* next_frame without line_buf.clear().
next_frame_NoClear(rd) ==
    LET rl == read_line(rd.lines, rd.pos, rd.line_buf)
        r1 == [rd EXCEPT !.pos = rl.pos, !.line_buf = rl.buf]
    IN  IF rl.tag = "Err" THEN [rd |-> r1, res |-> [tag |-> "Err", err |-> "read line"]]
        ELSE IF rl.n = 0 THEN [rd |-> r1, res |-> [tag |-> "None"]]
        ELSE IF trim(r1.line_buf) = << >> THEN next_frame_NoClear(r1)
        ELSE [rd |-> r1, res |-> parse_frame(trim(r1.line_buf))]

\* SessionReader::next_frame
next_frame(rd) ==
    LET rl == read_line(rd.lines, rd.pos, << >>)
        r1 == [rd EXCEPT !.pos = rl.pos, !.line_buf = rl.buf]
    IN  IF rl.tag = "Err" THEN [rd |-> r1, res |-> [tag |-> "Err", err |-> "read line"]]
        ELSE IF rl.n = 0 THEN [rd |-> r1, res |-> [tag |-> "None"]]
        ELSE IF trim(r1.line_buf) = << >> THEN next_frame(r1)
        ELSE [rd |-> r1, res |-> parse_frame(trim(r1.line_buf))]

\* SessionReader::read_all
RECURSIVE read_all(_)
read_all(rd) ==
    LET r == next_frame(rd)
    IN  IF r.res.tag = "None" THEN << >>
        ELSE (IF r.res.tag = "Ok" THEN << r.res.frame >> ELSE << >>) \o read_all(r.rd)

readVars == << input_q, input_open, produced, last_ts, frame_q, rx_alive, received,
               pc, send_idx, frame, use_audio_detection, prev_active,
               prev_pedal_engaged, prev_lever_engaged, inference, string_detector,
               taken, step, audio_capture, sink_pc, extVars >>

\* SessionReader::open(reader) on a session file
ReaderOpen ==
    /\ session.state = "none"
    /\ \E file \in SessionFiles : session' = open(file)
    /\ UNCHANGED readVars

\* The caller asks for the next frame
ReaderNextFrame ==
    /\ session.state = "open"
    /\ \E r \in { next_frame(session.reader) } :
         session' = [session EXCEPT !.reader = r.rd, !.op = "next_frame",
                                    !.before = session.reader.pos,
                                    !.last = r.res]
    /\ UNCHANGED readVars

\* The caller reads all the remaining frames; read_all consumes the reader
ReaderReadAll ==
    /\ session.state = "open"
    /\ session' = [session EXCEPT !.state = "consumed", !.op = "read_all",
                                  !.before = session.reader.pos,
                                  !.frames = read_all(session.reader)]
    /\ UNCHANGED readVars

ReadNext == ReaderOpen \/ ReaderNextFrame \/ ReaderReadAll

ReadInit == Init /\ use_audio_detection = FALSE

ReadSpec == ReadInit /\ [][ReadNext]_vars

----------------------------------------------------------------------------
(* The sink threads of main.rs: OscSender::run and DataLogger::run each own *)
(* the receiver of one sink channel and loop on it until the channel is     *)
(* empty and disconnected.  The coordinator thread drops the Coordinator,   *)
(* and with it the senders of the sink channels, when run() has returned.   *)

sinkVars == << input_q, input_open, produced, last_ts, received, send_idx, frame,
               use_audio_detection, prev_active, prev_pedal_engaged,
               prev_lever_engaged, inference, string_detector, taken, step,
               audio_capture, session, extVars >>

\* main.rs: the closure of the coordinator thread ends after coord.run()
CoordDrop ==
    /\ pc = "done"
    /\ pc' = "dropped"
    /\ UNCHANGED << sinkVars, frame_q, rx_alive, sink_pc >>

\* The sink thread has set up its output and enters its receive loop
SinkStart(k) ==
    /\ sink_pc[k] = "start"
    /\ sink_pc' = [sink_pc EXCEPT ![k] = "loop"]
    /\ UNCHANGED << sinkVars, pc, frame_q, rx_alive >>

\* The sink thread ends before its loop (the UDP socket cannot be bound, a
\* session file cannot be created); its receiver is dropped with it.
SinkFail(k) ==
    /\ sink_pc[k] = "start"
    /\ sink_pc' = [sink_pc EXCEPT ![k] = "failed"]
    /\ rx_alive' = [rx_alive EXCEPT ![k] = FALSE]
    /\ frame_q' = [frame_q EXCEPT ![k] = << >>]
    /\ UNCHANGED << sinkVars, pc >>

\* One iteration of the receive loop
SinkLoopRecv(k) ==
    /\ sink_pc[k] = "loop"
    /\ SinkRecv(k)

\* SinkLoopEnd leaving the loop as soon as the senders are gone.
SinkLoopEnd_OnDisconnect(k) ==
    /\ sink_pc[k] = "loop"
    /\ pc = "dropped"
    /\ sink_pc' = [sink_pc EXCEPT ![k] = "ended"]
    /\ rx_alive' = [rx_alive EXCEPT ![k] = FALSE]
    /\ frame_q' = [frame_q EXCEPT ![k] = << >>]
    /\ UNCHANGED << sinkVars, pc >>

\* rx.iter() ends, rx.recv() returns Err: the channel is empty and every
\* sender is dropped.  The thread returns and its receiver goes with it.
SinkLoopEnd(k) ==
    /\ sink_pc[k] = "loop"
    /\ pc = "dropped" /\ frame_q[k] = << >>
    /\ sink_pc' = [sink_pc EXCEPT ![k] = "ended"]
    /\ rx_alive' = [rx_alive EXCEPT ![k] = FALSE]
    /\ frame_q' = [frame_q EXCEPT ![k] = << >>]
    /\ UNCHANGED << sinkVars, pc >>

SinkThread(k) == SinkStart(k) \/ SinkFail(k) \/ SinkLoopRecv(k) \/ SinkLoopEnd(k)

SinkNext ==
    \/ SourceSensor
    \/ SourceAudio
    \/ CloseInput
    \/ CoordSensor
    \/ CoordSend
    \/ CoordAudio
    \/ CoordExit
    \/ CoordDrop
    \/ \E k \in Sinks : SinkStart(k)
    \/ \E k \in Sinks : SinkFail(k)
    \/ \E k \in Sinks : SinkLoopRecv(k)
    \/ \E k \in Sinks : SinkLoopEnd(k)

\* Every sink thread is scheduled whenever it can run.
SinkSpec == Init /\ [][SinkNext]_vars /\ \A k \in Sinks : WF_vars(SinkThread(k))

----------------------------------------------------------------------------
(* The audio buffers on their own: chunks of any size are pushed into the   *)
(* detector and the inferencer, as the Audio arm of run() does.  step keeps *)
(* the chunks pushed so far.                                                *)

\* Chunk sizes from one sample to more than twice the analysis window
BufChunks ==
    { [n |-> n, amp |-> amp] : n \in {1, 1000, 4096, 8192, 9000}, amp \in {10, 20, 30} }

BufPush ==
    /\ produced < MaxPushes
    /\ \E c \in BufChunks :
         /\ inference' = inf_push_audio(inference, c)
         /\ string_detector' = det_push_audio(string_detector, c)
         /\ step' = [ op |-> "push", chunk |-> c,
                      pushed |-> IF step = NoStep THEN << c >>
                                 ELSE Append(step.pushed, c) ]
    /\ produced' = produced + 1
    /\ UNCHANGED << chanVars, last_ts, pc, send_idx, frame, use_audio_detection,
                    prev_active, prev_pedal_engaged, prev_lever_engaged, taken,
                    ioVars >>

BufNext == BufPush

BufSpec == Init /\ [][BufNext]_vars

----------------------------------------------------------------------------
(* The bar sensor on its own: estimate and reset applied in any order to a *)
(* BarSensor::new(), whose last_position is inference.bar_sensor_last.      *)

\* Hall readings: nothing, a weak field (0.02), the presence threshold
\* itself (0.05) and a magnet close to the sensor (0.9).
HallReadings == [0 .. 3 -> {0, 20, 50, 900}]

BarEstimate ==
    /\ produced < MaxEstimates
    /\ \E readings \in HallReadings :
       \E r \in { estimate(readings, inference.bar_sensor_last) } :
         /\ inference' = [inference EXCEPT !.bar_sensor_last = r.last]
         /\ step' = [ op |-> "estimate", readings |-> readings,
                      before |-> inference.bar_sensor_last,
                      pos |-> r.pos, conf |-> r.conf ]
    /\ produced' = produced + 1
    /\ UNCHANGED << chanVars, last_ts, pc, send_idx, frame, use_audio_detection,
                    prev_active, prev_pedal_engaged, prev_lever_engaged,
                    string_detector, taken, ioVars >>

\* BarSensor::reset
BarReset ==
    /\ produced < MaxEstimates
    /\ inference' = [inference EXCEPT !.bar_sensor_last = NONE]
    /\ step' = [ op |-> "reset", before |-> inference.bar_sensor_last ]
    /\ produced' = produced + 1
    /\ UNCHANGED << chanVars, last_ts, pc, send_idx, frame, use_audio_detection,
                    prev_active, prev_pedal_engaged, prev_lever_engaged,
                    string_detector, taken, ioVars >>

BarNext == BarEstimate \/ BarReset

BarInit == Init /\ use_audio_detection = FALSE

BarSpec == BarInit /\ [][BarNext]_vars

----------------------------------------------------------------------------
(* Fairness: the coordinator thread is scheduled whenever it can run.      *)
(* Nothing is assumed of the sources or of the sink consumers.             *)

Coordinator == CoordSensor \/ CoordSend \/ CoordAudio \/ CoordExit

FairSpec == Spec /\ WF_vars(Coordinator)

----------------------------------------------------------------------------
(* Properties *)

\* A sensor frame has just been handled and `frame` is the frame built for it.
SensorHandled == step.op = "sensor"

\* The control crossings of the frame just built, read off the frame and
\* the frame emitted before it (no control engaged before the first frame).
WasAbove(prev, field, j) ==
    IF prev = NoFrame THEN FALSE ELSE prev[field][j] > ENGAGED_THRESHOLD

PedalCrossed(j) ==
    (frame.pedals[j] > ENGAGED_THRESHOLD) # WasAbove(step.prev_frame, "pedals", j)

LeverCrossed(j) ==
    (frame.knee_levers[j] > ENGAGED_THRESHOLD)
        # WasAbove(step.prev_frame, "knee_levers", j)

CrossingHits(i) ==
    /\ frame.string_active[i]
    /\ \/ \E j \in Pedals : PedalCrossed(j) /\ pedal_string_map[j][i]
       \/ \E j \in Levers : LeverCrossed(j) /\ lever_string_map[j][i]

WasActive(i) ==
    IF step.prev_frame = NoFrame THEN FALSE ELSE step.prev_frame.string_active[i]

\* C1: in every CaptureFrame the coordinator sends, in either detection
\* mode, attacks[i] implies string_active[i] for every string i.
C1_AttackImpliesActive ==
    frame # NoFrame => \A i \in Strings : frame.attacks[i] => frame.string_active[i]

\* C1 witness: audio mode, a frame carrying a detector onset while another
\* string stays inactive and unattacked.
C1_Witness ==
    /\ SensorHandled /\ use_audio_detection
    /\ \E i \in Strings : frame.attacks[i] /\ step.det_attacks[i]
    /\ \E i \in Strings : ~frame.attacks[i] /\ ~frame.string_active[i]

\* C2: the coordinator never waits on a full sink channel: whenever it is
\* in its send loop the send returns at once (the frame is queued or dropped).
C2_SendNeverBlocks == pc = "send" => ENABLED CoordSend

C4_ExitsAfterClose == (~input_open) ~> (pc = "done")

C6_SensorTruth ==
    (SensorHandled /\ ~use_audio_detection) =>
        /\ frame.string_active = step.sensor.string_active
        /\ \A i \in Strings :
             step.initial[i] <=> (frame.string_active[i] /\ ~WasActive(i))

\* C6 witness: OFF mode, strings held active over two frames (no second
\* pick attack) while the detector, with the bar unknown, reports none active.
C6_Witness ==
    /\ SensorHandled /\ ~use_audio_detection
    /\ frame.string_active[2] /\ WasActive(2) /\ ~step.initial[2]
    /\ frame.bar_position = NONE
    /\ step.det_active # frame.string_active

\* C7: with audio detection ON every frame carries the detector's active
\* mask, a string the detector turned active in this call is attacked in
\* this frame, and a frame built without an analysis pass carries crossing
\* attacks only.
C7_AudioMode ==
    (SensorHandled /\ use_audio_detection) =>
        /\ frame.string_active = string_detector.active
        /\ \A i \in Strings :
             frame.attacks[i] <=>
                 \/ ~step.det_before[i] /\ string_detector.active[i]
                 \/ CrossingHits(i)
        /\ step.branch = "not_ready" =>
             \A i \in Strings : frame.attacks[i] <=> CrossingHits(i)

\* C7 witness: ON mode, a frame built without an analysis pass while a
\* string is still active from an earlier onset: active, not attacked.
C7_Witness ==
    /\ SensorHandled /\ use_audio_detection
    /\ step.branch = "not_ready"
    /\ frame.string_active[2] /\ ~frame.attacks[2]
    /\ step.sensor.string_active # frame.string_active

\* C8: for every detect call and string i, the returned attack[i] is true
\* iff string i was inactive before the call and is active after it.
C8_AttackIffOnset ==
    step.op = "detect" =>
        /\ step.active = string_detector.active
        /\ \A i \in Strings :
             step.attacks[i] <=> (~step.before.active[i] /\ string_detector.active[i])

\* C8 witness: a string is attacked a second time, after a pass released it.
C8_Witness ==
    /\ step.op = "detect" /\ step.onsets >= 2 /\ step.attacks[2]
    /\ ~step.before.active[2] /\ step.before.energy[2] > 0

\* C9: when the sensor estimate s and the audio estimate a are both present
\* and |s - a| >= 2 frets, infer reports bar_source = Sensor.
C9_DisagreementIsSensor ==
    ( /\ step.op = "infer"
      /\ step.sensor_est.pos # NONE /\ step.audio_est.pos # NONE
      /\ Abs(step.sensor_est.pos - step.audio_est.pos) >= DISAGREEMENT_LIMIT )
    => step.state.source = "Sensor"

\* C10: infer decides by the estimates available: both within 2 frets give
\* the blend 0.4 s + 0.6 a, the mean confidence and Fused; sensor only gives
\* s, 0.8 conf_s and Sensor; audio only gives a, 0.7 conf_a and Audio;
\* neither gives unknown, confidence 0 and None.
C10_FusionCases ==
    step.op = "infer" =>
        LET sp == step.sensor_est.pos
            sc == step.sensor_est.conf
            ap == step.audio_est.pos
            ac == step.audio_est.conf
            st == step.state
        IN  /\ (sp # NONE /\ ap # NONE /\ Abs(sp - ap) < 200) =>
                 /\ step.fused = (4 * sp + 6 * ap) \div 10
                 /\ st.confidence = (sc + ac) \div 2
                 /\ st.source = "Fused"
            /\ (sp # NONE /\ ap = NONE) =>
                 /\ step.fused = sp
                 /\ st.confidence = (8 * sc) \div 10
                 /\ st.source = "Sensor"
            /\ (sp = NONE /\ ap # NONE) =>
                 /\ step.fused = ap
                 /\ st.confidence = (7 * ac) \div 10
                 /\ st.source = "Audio"
            /\ (sp = NONE /\ ap = NONE) =>
                 /\ st.position = NONE /\ st.confidence = 0 /\ st.source = "None"
            /\ step.fused # NONE =>
                 st.position = (IF step.before.last_position = NONE THEN step.fused
                                ELSE step.before.last_position
                                     + (3 * (step.fused - step.before.last_position)) \div 10)

\* C10 witness: both estimates present, different and within 2 frets.
C10_Witness ==
    /\ step.op = "infer" /\ step.state.source = "Fused"
    /\ step.sensor_est.pos # step.audio_est.pos
    /\ Abs(step.sensor_est.pos - step.audio_est.pos) < 200
    /\ step.before.last_position # NONE

\* A sensor frame with the bar lifted and no string sounding.
Lifted(sensor) ==
    /\ \A k \in 0 .. 3 : sensor.bar_sensors[k] = 0
    /\ sensor.string_active = AllFalse

C12_NoBarNoStrings ==
    (SensorHandled /\ use_audio_detection /\ frame.bar_position = NONE) =>
        frame.string_active = AllFalse

\* The open note of string i under a frame's engagements, from the copedant's
\* change lists: open string plus engagement times delta of every control.
OpenNote(f, i) ==
    LET P(j) == (DeltaOn(pedal_changes[j], i) * f.pedals[j]) \div 10
        L(j) == (DeltaOn(lever_changes[j], i) * f.knee_levers[j]) \div 10
    IN  open_strings[i] + P(0) + P(1) + P(2) + L(0) + L(1) + L(2) + L(3) + L(4)

\* C13: in every frame whose bar_position is unknown, string_pitches_hz[i]
\* is the pitch of the effective open note of string i under that frame's
\* pedal and lever engagements, the value compute_pitches gives for a bar at
\* fret 0.
C13_OpenPitchesWhenNoBar ==
    (SensorHandled /\ frame.bar_position = NONE) =>
        /\ \A i \in Strings : frame.string_pitches_hz[i] = OpenNote(frame, i)
        /\ frame.string_pitches_hz = compute_pitches(step.sensor, 0)

\* C13 witness: bar unknown with pedal A down, pedal B half down and lever
\* LKR at 0.8: string 5 sounds 2 - 0.8 semitones above its open note,
\* string 3 half a semitone above.
C13_Witness ==
    /\ SensorHandled /\ frame.bar_position = NONE
    /\ frame.pedals[0] = 1000 /\ frame.knee_levers[1] = 800
    /\ frame.string_pitches_hz[4] = open_strings[4] + 120
    /\ frame.string_pitches_hz[2] = open_strings[2] + 50

\* A sensor frame with every control at rest but pedal j / lever j at e.
OnlyPedal(j, e) == [RestFrame EXCEPT !.pedals[j] = e]
OnlyLever(j, e) == [RestFrame EXCEPT !.knee_levers[j] = e]

\* What a control alone adds to string i at engagement e.
PedalAlone(j, e, i) == effective_open_pitches(OnlyPedal(j, e))[i] - open_strings[i]
LeverAlone(j, e, i) == effective_open_pitches(OnlyLever(j, e))[i] - open_strings[i]

\* C14: effective_open_pitches gives open_strings[i] plus the sum over the
\* pedals and levers of engagement times the control's delta on string i:
\* the contributions of several controls add, a control alone contributes
\* its engagement times its delta, and with every control at rest the
\* pitch at bar fret f is open_strings[i] + f.
C14_EffectiveOpen ==
    step.op = "pitches" =>
        \A i \in Strings :
            /\ step.open[i] = OpenNote(step.sensor, i)
            /\ step.open[i] - open_strings[i] =
                   PedalAlone(0, step.sensor.pedals[0], i)
                 + PedalAlone(2, step.sensor.pedals[2], i)
                 + LeverAlone(1, step.sensor.knee_levers[1], i)
                 + LeverAlone(3, step.sensor.knee_levers[3], i)
            /\ \A j \in Pedals :
                   1000 * PedalAlone(j, step.sensor.pedals[j], i)
                     = step.sensor.pedals[j] * 100 * DeltaOn(pedal_changes[j], i)
            /\ \A j \in Levers :
                   1000 * LeverAlone(j, step.sensor.knee_levers[j], i)
                     = step.sensor.knee_levers[j] * 100 * DeltaOn(lever_changes[j], i)
            /\ (step.sensor.pedals = Rest3 /\ step.sensor.knee_levers = Rest5
                  /\ step.bar_fret # NONE)
                 => step.hz[i] = open_strings[i] + step.bar_fret

\* C14 witness: pedal A at a quarter, pedal C fully down and lever LKR at a
\* quarter all act on string 5: 0.5 + 2 - 0.25 semitones.
C14_Witness ==
    /\ step.op = "pitches"
    /\ step.sensor.pedals[0] = 250 /\ step.sensor.pedals[2] = 1000
    /\ step.sensor.knee_levers[1] = 250
    /\ step.open[4] = open_strings[4] + 225

\* C15: every BarState infer returns is either unknown (position None,
\* confidence 0, source None) or has its position in [0, 24] frets, its
\* confidence in [0, 1] and a source other than None.
C15_BarStateRange ==
    step.op = "infer" =>
        \/ /\ step.state.position = NONE
           /\ step.state.confidence = 0
           /\ step.state.source = "None"
        \/ /\ step.state.position \in 0 .. 2400
           /\ step.state.confidence \in 0 .. 1000
           /\ step.state.source \in { "Sensor", "Audio", "Fused" }

\* C15 witness: an audio-only estimate whose refinement was clamped at
\* fret 0, smoothed from an earlier position.
C15_Witness ==
    /\ step.op = "infer" /\ step.state.source = "Audio"
    /\ step.audio_est.pos = 0 /\ step.before.last_position # NONE
    /\ step.state.position > 0

\* C16: a detect call made while the buffer is shorter than the analysis
\* window, or fewer than analysis_interval samples came since the last
\* analysis, returns the previous active mask and all-false attacks and
\* leaves the detector's state (active, energy, peak_energy, audio_buf,
\* samples_since_analysis) as it was.
C16_NotReadyNoChange ==
    ( /\ step.op = "detect"
      /\ \/ BufLen(step.before.audio_buf) < ANALYSIS_WINDOW
         \/ step.before.samples_since_analysis < ANALYSIS_INTERVAL )
    => /\ step.active = step.before.active
       /\ step.attacks = AllFalse
       /\ string_detector = step.before

\* C16 witness: the window is full, fewer than analysis_interval samples
\* came since the last pass, and a string active from that pass stays so.
C16_Witness ==
    /\ step.op = "detect"
    /\ BufLen(step.before.audio_buf) >= ANALYSIS_WINDOW
    /\ step.before.samples_since_analysis < ANALYSIS_INTERVAL
    /\ step.before.active[2] /\ step.active[2]
    /\ step.before.energy[2] > 0
    /\ step.bar_position = NONE

\* C17: converting a CaptureFrame to a CompactFrame and back gives a frame
\* equal to the original in every field, bar_position = None and every
\* BarSource included.
C17_CompactRoundTrip ==
    step.op = "convert" =>
        /\ step.back = step.frame
        /\ step.compact.sa = step.frame.string_active
        /\ step.compact.at = step.frame.attacks
        /\ step.compact.bp = step.frame.bar_position
        /\ step.compact.bx = step.frame.bar_source

\* C17 witness: a frame with no bar position, source None, and attacks that
\* differ from string_active comes back unchanged.
C17_Witness ==
    /\ step.op = "convert"
    /\ step.frame.bar_position = NONE /\ step.back.bar_position = NONE
    /\ step.back.bar_source = "None"
    /\ step.frame.attacks # step.frame.string_active
    /\ step.back.attacks[3] /\ ~step.back.attacks[2]

\* The ids of a queue of callback chunks
Ids(q) == [a \in 1 .. Len(q) |-> q[a].id]
Increasing(ids) == \A a, b \in 1 .. Len(ids) : a < b => ids[a] < ids[b]

\* C18: the audio callback never blocks: once it has its mono chunk the
\* try_send returns at once; a chunk that finds the inner channel full is
\* dropped, any other chunk offered to a live worker is enqueued; and the
\* worker receives the enqueued chunks in callback order.
C18_CallbackNeverBlocks ==
    /\ audio_capture.cb # NoCallback => ENABLED CallbackSend
    /\ audio_capture.last # NoCallback =>
          /\ audio_capture.last.was_full => ~audio_capture.last.ok
          /\ audio_capture.last.ok <=> audio_capture.last.id \notin audio_capture.dropped
    /\ Len(audio_capture.raw_q) <= RawCap
    /\ Increasing(audio_capture.got \o Ids(audio_capture.raw_q))
    /\ \A id \in 1 .. audio_capture.calls :
          \/ id \in audio_capture.dropped
          \/ \E a \in 1 .. Len(audio_capture.got) : audio_capture.got[a] = id
          \/ \E a \in 1 .. Len(audio_capture.raw_q) : audio_capture.raw_q[a].id = id
          \/ audio_capture.cb # NoCallback /\ audio_capture.cb.id = id

\* C18 witness: a callback found the inner channel full and returned with
\* its chunk dropped, and the worker has since received a later chunk after
\* an earlier one.
C18_Witness ==
    /\ audio_capture.cb = NoCallback
    /\ \E d \in audio_capture.dropped :
         \E a, b \in 1 .. Len(audio_capture.got) :
            audio_capture.got[a] < d /\ d < audio_capture.got[b]
    /\ audio_capture.w_pc # "done"

\* The frame numbers sink k's consumer has seen or has waiting: the last one
\* received, then the queued ones.
SinkSeqs(k) == << received[k] >> \o [a \in 1 .. Len(frame_q[k]) |-> frame_q[k][a].seq]

\* C19: a send to a sink whose receiver is dropped returns at once and is
\* ignored: the coordinator goes on with the loop and the next events, and
\* every sink whose receiver is alive is handed every frame, none skipped.
C19_DroppedSinkIgnored ==
    /\ (pc = "send" /\ ~rx_alive[send_idx]) => ENABLED CoordSend
    /\ \A k \in Sinks : rx_alive[k] =>
          /\ \A a \in 1 .. Len(frame_q[k]) : SinkSeqs(k)[a + 1] = SinkSeqs(k)[a] + 1
          /\ SinkSeqs(k)[Len(frame_q[k]) + 1] =
                IF pc = "send" /\ send_idx <= k THEN Len(taken) - 1 ELSE Len(taken)

\* C19 witness: sink 1's receiver was dropped before it took any frame, the
\* coordinator has built two frames and finished both send loops, and sink
\* 2's consumer has received both.
C19_Witness ==
    /\ ~rx_alive[1] /\ rx_alive[2]
    /\ received[1] = 0 /\ received[2] = 2
    /\ Len(taken) = 2 /\ pc = "recv"

\* Every string of a calibration record has its release below its onset.
WellFormed(cal) == \A a \in 1 .. Len(cal) : cal[a].release < cal[a].onset

\* C20 as stated: in every detector state reached from new, with or without
\* with_thresholds from a calibration record, by push_audio, detect and
\* reset, release_threshold[i] < onset_threshold[i] for every string i.
C20_ReleaseBelowOnset ==
    \A i \in Strings :
        string_detector.release_threshold[i] < string_detector.onset_threshold[i]

\* C20 amended: the same, for a detector built without with_thresholds or
\* with the thresholds of a calibration record in which every string has
\* release < onset; the thresholds stay those of the record (the defaults
\* 0.02 and 0.008 for a string the record does not list).
C20_ReleaseBelowOnsetIfCalibrated ==
    /\ \A i \in Strings :
          /\ string_detector.onset_threshold[i] =
                (IF i < Len(StepCal) THEN StepCal[i + 1].onset ELSE ONSET_DEFAULT)
          /\ string_detector.release_threshold[i] =
                (IF i < Len(StepCal) THEN StepCal[i + 1].release ELSE RELEASE_DEFAULT)
    /\ WellFormed(StepCal) =>
          \A i \in Strings :
              string_detector.release_threshold[i] < string_detector.onset_threshold[i]

\* C20 witness: a detector calibrated for its three first strings only has
\* run an analysis pass that turned string 3 active and was then reset.
C20_Witness ==
    /\ step.op = "reset" /\ Len(step.cal) = 3 /\ WellFormed(step.cal)
    /\ step.before.active[2] /\ ~string_detector.active[2]
    /\ string_detector.onset_threshold[2] = 150
    /\ string_detector.release_threshold[9] = RELEASE_DEFAULT

\* C21: every amplitude the detector reports lies in [0, 1], and in every
\* reachable detector state peak_energy[i] >= 0.01, so that energy / peak
\* is defined.
C21_AmplitudeRange ==
    /\ \A i \in Strings : string_detector.peak_energy[i] >= PEAK_FLOOR
    /\ step.op = "detect" =>
          \A i \in Strings :
              /\ step.amplitude[i] \in 0 .. 1000
              /\ step.before.peak_energy[i] > 0

\* C21 witness: a normal pass after which string 3's energy is below its
\* peak, the peak having decayed from an earlier pass: an amplitude strictly
\* between 0 and 1.
C21_Witness ==
    /\ step.op = "detect" /\ step.branch = "normal"
    /\ step.amplitude[2] > 0 /\ step.amplitude[2] < 1000
    /\ string_detector.peak_energy[2] < step.before.peak_energy[2]
    /\ string_detector.peak_energy[0] = PEAK_FLOOR

\* The lines of the session file that the last reader operation had before it
RemainingLines ==
    SubSeq(session.reader.lines, session.before + 1, Len(session.reader.lines))

IsFrameLine(ln) == ln.kind = "frame"
IsTextLine(ln) == ln.kind # "blank"

\* C22: next_frame returns an error for the first non-blank line when that
\* line is not a valid compact frame, the frame of the line when it is, and
\* end-of-stream when no non-blank line is left, whatever it returned before;
\* read_all returns exactly the frames of the well-formed lines that remain,
\* in file order.
C22_ReaderSkipsMalformed ==
    session.state \in {"open", "consumed"} =>
        LET text == SelectSeq(RemainingLines, IsTextLine)
            good == SelectSeq(RemainingLines, IsFrameLine)
        IN  /\ session.op = "next_frame" =>
                  IF text = << >> THEN session.last.tag = "None"
                  ELSE IF text[1].kind = "frame"
                       THEN session.last = [tag |-> "Ok", frame |-> from_compact(text[1].c)]
                       ELSE session.last.tag = "Err"
            /\ session.op = "read_all" =>
                  /\ Len(session.frames) = Len(good)
                  /\ \A k \in 1 .. Len(good) :
                         session.frames[k] = from_compact(good[k].c)

\* C22 witness: next_frame returns a frame although the line read just before
\* was malformed and the line before the frame is blank.
C22_Witness ==
    /\ session.state = "open" /\ session.op = "next_frame"
    /\ session.last.tag = "Ok"
    /\ session.before >= 2
    /\ session.reader.lines[session.before].kind = "bad"
    /\ session.reader.lines[session.before + 1].kind = "blank"

\* C22 witness of read_all: two frames returned from a file holding a
\* malformed line between them.
C22_WitnessReadAll ==
    /\ session.state = "consumed"
    /\ Len(session.frames) = 2
    /\ session.frames[1].timestamp_us > session.frames[2].timestamp_us
    /\ \E k \in 1 .. Len(session.reader.lines) : session.reader.lines[k].kind = "bad"

\* C23: a sink thread leaves its receive loop only once the coordinator has
\* been dropped and the thread has received every frame queued for it, the
\* last frame built included; and once the coordinator has been dropped
\* every sink thread that entered its loop does leave it.
C23_SinksDrainThenLeave ==
    /\ [](\A k \in Sinks : sink_pc[k] = "ended" =>
              /\ pc = "dropped"
              /\ frame_q[k] = << >>
              /\ received[k] = Len(taken))
    /\ (pc = "dropped") ~> (\A k \in Sinks : sink_pc[k] \in {"ended", "failed"})

\* C23 witness: the coordinator is dropped; sink 1 has received both frames
\* and left its loop, sink 2 is in its loop with a frame still queued.
C23_Witness ==
    /\ pc = "dropped" /\ Len(taken) = 2
    /\ sink_pc[1] = "ended" /\ received[1] = 2
    /\ sink_pc[2] = "loop" /\ frame_q[2] # << >>

\* C24: on every sensor frame the coordinator handles, the detector's
\* analysis pass runs (whatever its branch: unknown bar, silence or normal)
\* only if its buffer held at least 4096 samples and at least 2048 samples
\* had been pushed since its previous pass, and the pass leaves
\* samples_since_analysis at zero; likewise for the bar inferencer's audio
\* path.
C24_PassOnlyWhenReady ==
    [][ step'.op = "sensor" =>
          /\ step'.branch # "not_ready" =>
                /\ BufLen(string_detector.audio_buf) >= 4096
                /\ string_detector.samples_since_analysis >= 2048
                /\ string_detector'.samples_since_analysis = 0
          /\ step'.bar_ran =>
                /\ BufLen(inference.audio_buf) >= 4096
                /\ inference.samples_since_analysis >= 2048
                /\ inference'.samples_since_analysis = 0 ]_vars

\* C24 witness: a sensor frame on which the inferencer's pass ran on a
\* silent window and the detector's pass ended early on the unknown bar,
\* both counters back at zero with full buffers.
C24_Witness ==
    /\ step.op = "sensor" /\ step.bar_ran /\ step.branch = "no_bar"
    /\ inference.silence_count > 0
    /\ string_detector.samples_since_analysis = 0
    /\ inference.samples_since_analysis = 0
    /\ BufLen(string_detector.audio_buf) >= 4096

\* The last n samples of a sequence of runs, counted from its end.
RECURSIVE TakeLast(_, _)
TakeLast(runs, n) ==
    IF n <= 0 \/ runs = << >> THEN << >>
    ELSE LET last == runs[Len(runs)]
         IN  IF last.n >= n THEN << [n |-> n, amp |-> last.amp] >>
             ELSE TakeLast(SubSeq(runs, 1, Len(runs) - 1), n - last.n) \o << last >>

\* Adjacent runs of one amplitude joined: equal results are equal samples.
RECURSIVE Joined(_)
Joined(runs) ==
    IF Len(runs) < 2 THEN runs
    ELSE IF runs[1].amp = runs[2].amp
         THEN Joined(<< [n |-> runs[1].n + runs[2].n, amp |-> runs[1].amp] >>
                        \o SubSeq(runs, 3, Len(runs)))
         ELSE << runs[1] >> \o Joined(Tail(runs))

\* C25: after every push_audio, whatever the chunk sizes, the detector's and
\* the inferencer's buffers hold at most 2 * 4096 samples, and they hold the
\* most recently pushed samples in arrival order.
C25_BufferKeepsNewest ==
    step.op = "push" =>
        \A buf \in { string_detector.audio_buf, inference.audio_buf } :
            /\ BufLen(buf) <= 2 * 4096
            /\ Joined(buf) = Joined(TakeLast(step.pushed, 2 * 4096))

\* C25 witness: three chunks pushed, the last neither filling the buffer nor
\* a divisor of it, so the buffer holds the end of the first chunk, the
\* second and the third.
C25_Witness ==
    /\ step.op = "push" /\ Len(step.pushed) = 3
    /\ step.pushed[3].n = 1000 /\ step.pushed[2].n = 4096 /\ step.pushed[1].n = 9000
    /\ step.pushed[1].amp # step.pushed[2].amp
    /\ step.pushed[2].amp # step.pushed[3].amp
    /\ BufLen(string_detector.audio_buf) = 2 * 4096
    /\ Len(inference.audio_buf) = 3

\* The detect just applied was an analysis pass (the detector was ready)
\* with a known bar position.
PassWithBar ==
    /\ step.op = "detect" /\ step.bar_position # NONE
    /\ BufLen(step.before.audio_buf) >= 4096
    /\ step.before.samples_since_analysis >= 2048

\* C26: an analysis pass with a known bar position whose window RMS is below
\* 0.003 halves every smoothed energy, leaves every string inactive and
\* returns all-false attacks (and the inactive strings).
C26_SilencePass ==
    (PassWithBar /\ RmsBelow(Window(step.before.audio_buf), 3)) =>
        \A i \in Strings :
            /\ string_detector.energy[i] = step.before.energy[i] \div 2
            /\ ~string_detector.active[i]
            /\ ~step.active[i]
            /\ ~step.attacks[i]

\* C26 witness: a silent pass on a detector whose string 3 was active with
\* energy above zero; half of the energy is left and the peak is untouched.
C26_Witness ==
    /\ PassWithBar /\ RmsBelow(Window(step.before.audio_buf), 3)
    /\ step.before.active[2] /\ step.before.energy[2] > 1
    /\ string_detector.energy[2] > 0
    /\ string_detector.energy[2] < step.before.energy[2]
    /\ string_detector.peak_energy[2] = step.before.peak_energy[2]

\* C27: after the update of a string whose frequency is in range, in a
\* normal analysis pass, peak[i] = max(e[i], 0.992 * previous peak[i])
\* floored at 0.01, so that peak[i] >= e[i].
C27_PeakTracksEnergy ==
    (PassWithBar /\ ~RmsBelow(Window(step.before.audio_buf), 3)) =>
        \A i \in Strings :
            ~OutOfRange(effective_open_pitches(RestFrame)[i] + step.bar_position) =>
                /\ string_detector.peak_energy[i] =
                       Max(Max(string_detector.energy[i],
                               (step.before.peak_energy[i] * 992) \div 1000),
                           PEAK_FLOOR)
                /\ string_detector.peak_energy[i] >= string_detector.energy[i]

\* The sum of the readings estimate has just been given
ReadingsSum == step.readings[0] + step.readings[1] + step.readings[2] + step.readings[3]

RawSensorPosition(readings) ==
    LET p == CHOOSE k \in 0 .. 3 : \A m \in 0 .. 3 :
                 readings[m] < readings[k] \/ (readings[m] = readings[k] /\ m <= k)
        n == IF p = 0 THEN 1
             ELSE IF p = 3 THEN 2
             ELSE IF readings[p - 1] >= readings[p + 1] THEN p - 1 ELSE p + 1
    IN  IF 2 * readings[n] > 50
        THEN BAR_SENSOR_FRETS[p]
             + (readings[n] * (BAR_SENSOR_FRETS[n] - BAR_SENSOR_FRETS[p]))
               \div (readings[p] + readings[n])
        ELSE BAR_SENSOR_FRETS[p]

\* C29: when estimate reports the bar absent the sensor's last_position is
\* None, and when infer returns unknown the inferencer's last_position is
\* None; an estimate, or an infer, that starts without a last position
\* returns the raw sensor position, or the raw fused position, unblended.
C29_GapClearsSmoothers ==
    step.op = "infer" =>
        /\ step.sensor_est.pos = NONE => inference.bar_sensor_last = NONE
        /\ step.state.position = NONE => inference.last_position = NONE
        /\ (step.before.bar_sensor_last = NONE /\ step.sensor_est.pos # NONE) =>
               step.sensor_est.pos = RawSensorPosition(step.readings)
        /\ (step.before.last_position = NONE /\ step.state.position # NONE) =>
               step.state.position = step.fused
        /\ step.after_gap => step.before.last_position = NONE

\* C29 witness: the infer before this one returned unknown while a position
\* was held; this one finds the bar between two sensors and returns the raw
\* interpolated position.
C29_Witness ==
    /\ step.op = "infer" /\ step.after_gap
    /\ step.state.position # NONE
    /\ step.state.position = RawSensorPosition(step.readings)
    /\ step.state.position \notin { BAR_SENSOR_FRETS[k] : k \in 0 .. 3 }

\* Control j of the copedant has a non-zero delta on string i
PedalChanges(j, i) == DeltaOn(pedal_changes[j], i) # 0
LeverChanges(j, i) == DeltaOn(lever_changes[j], i) # 0

SensorOnlyReport(before, s) ==
    [ position |-> IF before.last_position = NONE THEN s.pos
                   ELSE before.last_position + (3 * (s.pos - before.last_position)) \div 10,
      confidence |-> (s.conf * 8) \div 10 ]

\* C31: when both estimates are present and two frets or more apart, the
\* value fed to the smoother is the sensor estimate and the reported
\* position and confidence are those of the sensor-only case.
C31_DisagreementTrustsSensor ==
    (/\ step.op = "infer"
     /\ step.sensor_est.pos # NONE /\ step.audio_est.pos # NONE
     /\ Abs(step.sensor_est.pos - step.audio_est.pos) >= 200) =>
        /\ step.fused = step.sensor_est.pos
        /\ step.state.position = SensorOnlyReport(step.before, step.sensor_est).position
        /\ step.state.confidence = SensorOnlyReport(step.before, step.sensor_est).confidence

\* C31 witness: sensor and audio estimates more than two frets apart, on an
\* inferencer that holds a previous position: the report is the sensor
\* estimate blended with that position only.
C31_Witness ==
    /\ step.op = "infer"
    /\ step.sensor_est.pos # NONE /\ step.audio_est.pos # NONE
    /\ Abs(step.sensor_est.pos - step.audio_est.pos) >= 200
    /\ step.before.last_position # NONE
    /\ step.before.last_position # step.sensor_est.pos
    /\ step.state.position # step.sensor_est.pos

\* Adjacent runs of the same callback chunk joined into one.
RECURSIVE MergeRuns(_)
MergeRuns(runs) ==
    IF Len(runs) < 2 THEN runs
    ELSE IF runs[1].id = runs[2].id
         THEN MergeRuns(<< [runs[1] EXCEPT !.n = @ + runs[2].n] >> \o Tail(Tail(runs)))
         ELSE << runs[1] >> \o MergeRuns(Tail(runs))

\* The sample runs of a sequence of chunks, one after another.
RECURSIVE ConcatRuns(_)
ConcatRuns(chunks) ==
    IF chunks = << >> THEN << >> ELSE Head(chunks) \o ConcatRuns(Tail(chunks))

\* The samples of a are the first samples of b (both merged).
IsRunPrefix(a, b) ==
    /\ Len(a) <= Len(b)
    /\ \A i \in 1 .. Len(a) :
          /\ a[i].id = b[i].id
          /\ IF i < Len(a) THEN a[i].n = b[i].n ELSE a[i].n <= b[i].n

\* C32: the capture worker sends only events of exactly CHUNK_SIZE samples;
\* the samples sent, in order, are the first samples of the chunks it
\* received, in order; whenever it waits for the next chunk it holds back
\* fewer than CHUNK_SIZE samples, namely the rest of what it received; and a
\* send that finds the input receiver gone ends the worker, which sends
\* nothing afterwards.
C32_WorkerChunks ==
    /\ [](/\ \A a \in 1 .. Len(audio_capture.sent) :
                RunsLen(audio_capture.sent[a]) = CHUNK_SIZE
          /\ \A a \in 1 .. Len(input_q) :
                input_q[a].kind = "Audio" => input_q[a].chunk.n = CHUNK_SIZE
          /\ audio_capture.emitted = Len(audio_capture.sent)
          /\ IsRunPrefix(MergeRuns(ConcatRuns(audio_capture.sent)),
                         MergeRuns(audio_capture.recv))
          /\ audio_capture.w_pc = "recv" =>
                /\ RunsLen(audio_capture.held) < CHUNK_SIZE
                /\ MergeRuns(ConcatRuns(audio_capture.sent) \o audio_capture.held)
                      = MergeRuns(audio_capture.recv)
          /\ (audio_capture.w_pc = "emit" /\ ~audio_capture.tx_connected) =>
                ENABLED WorkerEmit)
    /\ [][/\ ~audio_capture.tx_connected =>
                /\ audio_capture'.sent = audio_capture.sent
                /\ audio_capture.w_pc = "emit" =>
                      audio_capture'.w_pc \in { "emit", "done" }
          /\ audio_capture.w_pc = "done" => audio_capture'.w_pc = "done"]_vars

\* C32 witness: the worker has sent a chunk made of two callback chunks,
\* then found the receiver gone on a later send and ended while the stream
\* was still alive.
C32_Witness ==
    /\ ~audio_capture.tx_connected /\ audio_capture.w_pc = "done"
    /\ audio_capture.stream
    /\ \E a \in 1 .. Len(audio_capture.sent) : Len(audio_capture.sent[a]) = 2
    /\ RunsLen(audio_capture.recv) > CHUNK_SIZE * Len(audio_capture.sent)

\* An analysis pass of the detector run with the bar position unknown
PassWithoutBar ==
    /\ step.op = "detect" /\ step.bar_position = NONE
    /\ BufLen(step.before.audio_buf) >= 4096
    /\ step.before.samples_since_analysis >= 2048

\* C33 as stated: an analysis pass run while the bar position is unknown only
\* forces every active[i] false: the smoothed energies and the peaks are
\* left as they were.
C33_NoBarOnlyClearsActive ==
    PassWithoutBar =>
        /\ \A i \in Strings : ~string_detector.active[i]
        /\ string_detector.energy = step.before.energy
        /\ string_detector.peak_energy = step.before.peak_energy

\* C33 amended: an analysis pass run while the bar position is unknown forces
\* every active[i] false, sets every smoothed energy to zero, returns no
\* attack and zero amplitudes, and leaves the peaks as they were.
C33_NoBarClearsActiveAndEnergy ==
    PassWithoutBar =>
        /\ \A i \in Strings :
              /\ ~string_detector.active[i]
              /\ ~step.active[i] /\ ~step.attacks[i]
              /\ string_detector.energy[i] = 0
              /\ step.amplitude[i] = 0
        /\ string_detector.peak_energy = step.before.peak_energy
        /\ string_detector.samples_since_analysis = 0

\* C33 witness: a pass without a bar position on a detector whose string 3
\* was active with energy above zero and a peak above the floor.
C33_Witness ==
    /\ PassWithoutBar
    /\ step.before.active[2] /\ step.before.energy[2] > 0
    /\ step.before.peak_energy[2] > PEAK_FLOOR
    /\ string_detector.energy[2] = 0
    /\ string_detector.peak_energy[2] = step.before.peak_energy[2]

-----------------------------------------------------------------------------
(* SerialReader (serial_reader.rs): bytes from the port are appended to      *)
(* frame_buf, and complete frames are cut out of it, checked and sent.       *)

FRAME_SIZE == 34
SYNC_WORD == 48879         \* 0xBEEF
NUM_CHANNELS == 13
CAL_MIN == 200             \* Calibration::default ranges
CAL_MAX == 3800

\* Bitwise exclusive or of two naturals
RECURSIVE Xor(_, _)
Xor(a, b) ==
    IF a = 0 THEN b
    ELSE IF b = 0 THEN a
    ELSE (((a % 2) + (b % 2)) % 2) + 2 * Xor(a \div 2, b \div 2)

\* One turn of crc16's inner loop on a 16-bit value
crc_shift(crc) ==
    IF crc >= 32768 THEN Xor((crc * 2) % 65536, 4129) ELSE (crc * 2) % 65536

crc_byte(crc, byte) ==
    crc_shift(crc_shift(crc_shift(crc_shift(
    crc_shift(crc_shift(crc_shift(crc_shift(Xor(crc, byte * 256)))))))))

\* crc16: CRC-16/CCITT-FALSE of a byte sequence.  (The test on next and
\* rest makes TLC evaluate them before the recursive call; it is always true.)
RECURSIVE crc16_from(_, _)
crc16_from(crc, data) ==
    IF data = << >> THEN crc
    ELSE LET next == crc_byte(crc, Head(data))
             rest == Tail(data)
         IN  IF next >= 0 /\ Len(rest) >= 0 THEN crc16_from(next, rest) ELSE 0

crc16(data) == crc16_from(65535, data)

\* A 16-bit value as two bytes, a 32-bit value as four, little endian
le16(v) == << v % 256, v \div 256 >>
le32(v) == << v % 256, (v \div 256) % 256, (v \div 65536) % 256, v \div 16777216 >>
read_u16(data, at) == data[at + 1] + 256 * data[at + 2]

\* The 32 bytes before the CRC of a frame carrying adc and timestamp
frame_body(adc, timestamp) ==
    le16(SYNC_WORD) \o le32(timestamp)
      \o [b \in 1 .. 2 * NUM_CHANNELS |->
             IF b % 2 = 1 THEN adc[(b - 1) \div 2] % 256
                          ELSE adc[(b - 1) \div 2] \div 256]

\* tests::make_frame: a frame with the right CRC
make_frame(adc, timestamp) ==
    frame_body(adc, timestamp) \o le16(crc16(frame_body(adc, timestamp)))

\* find_sync: the first index i with buf[i] = 0xEF and buf[i+1] = 0xBE
find_sync(buf) ==
    IF \E i \in 1 .. Len(buf) - 1 : buf[i] = 239 /\ buf[i + 1] = 190
    THEN (CHOOSE i \in 1 .. Len(buf) - 1 :
             /\ buf[i] = 239 /\ buf[i + 1] = 190
             /\ \A j \in 1 .. i - 1 : ~(buf[j] = 239 /\ buf[j + 1] = 190)) - 1
    ELSE NONE

\* The raw ADC value of channel ch mapped to 0.0-1.0 (in 1/1000)
calibrate(raw) ==
    Clamp(((raw - CAL_MIN) * 1000) \div Max(CAL_MAX - CAL_MIN, 1), 0, 1000)

\* The SensorFrame of the 13 raw channels (the timestamp is the host clock's)
sensor_of(raw) ==
    [ pedals |-> [j \in Pedals |-> calibrate(raw[j])],
      knee_levers |-> [j \in Levers |-> calibrate(raw[3 + j])],
      volume |-> calibrate(raw[8]),
      bar_sensors |-> [j \in 0 .. 3 |-> calibrate(raw[9 + j])],
      string_active |-> AllFalse ]

\* parse_frame that does not compare the CRC
serial_parse_frame_NoCrc(data) ==
    IF Len(data) # FRAME_SIZE THEN [ok |-> FALSE, err |-> "wrong size"]
    ELSE IF read_u16(data, 0) # SYNC_WORD THEN [ok |-> FALSE, err |-> "bad sync"]
    ELSE [ok |-> TRUE,
          sensor |-> sensor_of([ch \in 0 .. NUM_CHANNELS - 1 |->
                                   read_u16(data, 6 + 2 * ch)])]

\* parse_frame(data, cal, clock) of serial_reader.rs
serial_parse_frame(data) ==
    IF Len(data) # FRAME_SIZE THEN [ok |-> FALSE, err |-> "wrong size"]
    ELSE IF read_u16(data, 0) # SYNC_WORD THEN [ok |-> FALSE, err |-> "bad sync"]
    ELSE IF read_u16(data, FRAME_SIZE - 2) # crc16(SubSeq(data, 1, FRAME_SIZE - 2))
    THEN [ok |-> FALSE, err |-> "CRC mismatch"]
    ELSE [ok |-> TRUE,
          sensor |-> sensor_of([ch \in 0 .. NUM_CHANNELS - 1 |->
                                   read_u16(data, 6 + 2 * ch)])]

DropBytes(buf, k) == SubSeq(buf, k + 1, Len(buf))

\* run(): `while frame_buf.len() >= FRAME_SIZE { ... }` on the reader state
RECURSIVE process_frames(_)
process_frames(sr) ==
    IF Len(sr.frame_buf) < FRAME_SIZE THEN sr
    ELSE LET sync_pos == find_sync(sr.frame_buf) IN
         IF sync_pos = NONE
         THEN process_frames([sr EXCEPT
                 !.frame_buf = DropBytes(@, Len(sr.frame_buf) - 1)])
         ELSE LET synced == DropBytes(sr.frame_buf, sync_pos) IN
              IF Len(synced) < FRAME_SIZE
              THEN [sr EXCEPT !.frame_buf = synced]
              ELSE LET r == serial_parse_frame(SubSeq(synced, 1, FRAME_SIZE)) IN
                   IF r.ok
                   THEN process_frames([sr EXCEPT
                           !.frame_buf = DropBytes(synced, FRAME_SIZE),
                           !.tx = Append(@, r.sensor),
                           !.frame_count = @ + 1])
                   ELSE process_frames([sr EXCEPT
                           !.frame_buf = DropBytes(synced, FRAME_SIZE),
                           !.error_count = @ + 1])

\* The ADC channels of a frame: channel 0 as given, the others mid-scale
AdcWith(first) == [ch \in 0 .. NUM_CHANNELS - 1 |-> IF ch = 0 THEN first ELSE 2000]

\* What the port can deliver between two frames: a well-formed frame; a
\* well-formed frame whose timestamp bytes hold the sync word; a frame whose
\* last CRC byte is inverted; a stray byte; 40 bytes of line noise ending
\* with the first byte of a sync word.
GoodFrame == make_frame(AdcWith(2000), 1000)
GoodFrameSyncInside == make_frame(AdcWith(3800), SYNC_WORD)
BadCrcFrame ==
    [GoodFrame EXCEPT ![FRAME_SIZE] = Xor(@, 255)]
StrayByte == << 170 >>
LineNoise == [b \in 1 .. 40 |-> IF b = 40 THEN 239 ELSE 0]

Segments ==
    { [kind |-> "good", bytes |-> GoodFrame],
      [kind |-> "good", bytes |-> GoodFrameSyncInside],
      [kind |-> "bad", bytes |-> BadCrcFrame],
      [kind |-> "noise", bytes |-> StrayByte],
      [kind |-> "noise", bytes |-> LineNoise] }

RECURSIVE SegSeqs(_)
SegSeqs(n) ==
    IF n = 0 THEN { << >> }
    ELSE SegSeqs(n - 1) \cup
         { Append(w, g) : w \in { x \in SegSeqs(n - 1) : Len(x) = n - 1 },
                          g \in Segments }

RECURSIVE WireBytes(_)
WireBytes(segs) ==
    IF segs = << >> THEN << >> ELSE Head(segs).bytes \o WireBytes(Tail(segs))

\* Bytes one port.read returns at most (buf is 256 bytes long)
ReadSizes == { 20, 256 }

serialVars == << input_q, input_open, produced, last_ts, frame_q, rx_alive,
                 received, pc, send_idx, frame, use_audio_detection, prev_active,
                 prev_pedal_engaged, prev_lever_engaged, inference,
                 string_detector, taken, step, audio_capture, session, sink_pc,
                 broadcaster, logger, twin >>

\* run(): the port opens; the stream the port will deliver is segs
SerialOpen ==
    /\ serial.state = "none"
    /\ \E segs \in SegSeqs(MaxSegs) :
         serial' = [ state |-> "open", segs |-> segs, wire |-> WireBytes(segs),
                     nread |-> 0, frame_buf |-> << >>, tx |-> << >>,
                     frame_count |-> 0, error_count |-> 0 ]
    /\ UNCHANGED serialVars

\* run(): the port does not open; run returns
SerialOpenFail ==
    /\ serial.state = "none"
    /\ serial' = [state |-> "failed"]
    /\ UNCHANGED serialVars

\* run(): port.read gives n bytes, which are appended to frame_buf, and the
\* complete frames in the buffer are processed.  (A read that times out or
\* fails changes nothing and the loop goes on.)
SerialRead ==
    /\ serial.state = "open" /\ serial.wire # << >>
    /\ \E size \in ReadSizes :
       \E n \in { Min(size, Len(serial.wire)) } :
         serial' = process_frames([serial EXCEPT
                      !.frame_buf = @ \o SubSeq(serial.wire, 1, n),
                      !.wire = DropBytes(@, n),
                      !.nread = @ + n])
    /\ UNCHANGED serialVars

SerialNext == SerialOpen \/ SerialOpenFail \/ SerialRead

SerialInit == Init /\ use_audio_detection = FALSE

SerialSpec == SerialInit /\ [][SerialNext]_vars

\* The segments of the stream whose last byte has been read
RECURSIVE SegsWithin(_, _)
SegsWithin(segs, n) ==
    IF segs = << >> \/ Len(Head(segs).bytes) > n THEN << >>
    ELSE << Head(segs) >> \o SegsWithin(Tail(segs), n - Len(Head(segs).bytes))

OfKind(segs, kind) == SelectSeq(segs, LAMBDA g : g.kind = kind)

-----------------------------------------------------------------------------
(* WsServer::run (ws_server.rs), the broadcast loop: frames from the sink    *)
(* channel are sent to the clients at no more than target_fps, the attacks   *)
(* of the frames in between being kept for the next frame sent.              *)

\* frame_interval, in clock ticks of the model, and the time that can pass
\* between two frames received
WS_INTERVAL == 2
Advances == { 1, 2 }

\* (string_active, attacks) of the frames received: nothing sounding;
\* strings 3 and 4 sounding, 4 just attacked; string 3 sounding and attacked.
WsMasks ==
    { << AllFalse, AllFalse >>, << Mask({2, 3}), Mask({3}) >>,
      << Mask({2}), Mask({2}) >> }

WsBaseFrame ==
    CHOOSE f \in CaptureFrames :
        /\ f.timestamp_us = 0 /\ f.pedals = Rest3 /\ f.knee_levers = Rest5
        /\ f.bar_source = "Sensor" /\ f.string_amplitude = [i \in Strings |-> 0]
        /\ f.string_active = AllFalse

WsFrames ==
    { [WsBaseFrame EXCEPT !.string_active = m[1], !.attacks = m[2]] : m \in WsMasks }

\* A latch that keeps only the attacks of the last frame
latch_LastOnly(pending, attacks) == attacks

\* `if frame.attacks[i] { *pending = true; }` for every string
latch(pending, attacks) == [i \in Strings |-> pending[i] \/ attacks[i]]

\* `if pending { send_frame.attacks[i] = true; }` on a clone of the frame
merge(f, pending) ==
    [f EXCEPT !.attacks = [i \in Strings |-> f.attacks[i] \/ pending[i]]]

wsVars == << input_q, input_open, produced, last_ts, frame_q, rx_alive,
             received, pc, send_idx, frame, use_audio_detection, prev_active,
             prev_pedal_engaged, prev_lever_engaged, inference,
             string_detector, taken, step, audio_capture, session, sink_pc,
             serial, logger, twin >>

\* run() reaches the broadcast loop
WsStart ==
    /\ broadcaster.state = "none"
    /\ broadcaster' = [ state |-> "loop", now |-> 0, last_send |-> 0,
                        pending_attacks |-> AllFalse,
                        recv |-> << >>,    \* frames received, with what was done
                        sent |-> << >> ]   \* compact frames sent to the clients
    /\ UNCHANGED wsVars

\* One turn of `for frame in self.frame_rx.iter()`: latch, throttle, merge,
\* clear, convert and send to every client.
WsFrame ==
    /\ broadcaster.state = "loop"
    /\ Len(broadcaster.recv) < MaxWsFrames
    /\ \E f \in WsFrames, dt \in Advances :
       \E pending \in { latch(broadcaster.pending_attacks, f.attacks) } :
       \E now \in { broadcaster.now + dt } :
         IF now - broadcaster.last_send < WS_INTERVAL
         THEN broadcaster' = [broadcaster EXCEPT
                 !.now = now,
                 !.pending_attacks = pending,
                 !.recv = Append(@, [frame |-> f, broadcast |-> FALSE])]
         ELSE broadcaster' = [broadcaster EXCEPT
                 !.now = now,
                 !.last_send = now,
                 !.pending_attacks = AllFalse,
                 !.recv = Append(@, [frame |-> f, broadcast |-> TRUE]),
                 !.sent = Append(@, to_compact(merge(f, pending)))]
    /\ UNCHANGED wsVars

\* frame_rx.iter() ends: every sender of the channel is gone
WsEnd ==
    /\ broadcaster.state = "loop"
    /\ broadcaster' = [broadcaster EXCEPT !.state = "done"]
    /\ UNCHANGED wsVars

WsNext == WsStart \/ WsFrame \/ WsEnd

WsInit == Init /\ use_audio_detection = FALSE

WsSpec == WsInit /\ [][WsNext]_vars

\* The received frames that were broadcast, as indices into recv
BroadcastAt == { k \in 1 .. Len(broadcaster.recv) : broadcaster.recv[k].broadcast }

\* The last broadcast before the k-th received frame (0: none)
PrevBroadcast(k) ==
    IF \E j \in BroadcastAt : j < k
    THEN CHOOSE j \in BroadcastAt : j < k /\ \A h \in BroadcastAt : h < k => h <= j
    ELSE 0

\* The compact frame sent when the k-th received frame was broadcast
SentFor(k) == broadcaster.sent[Cardinality({ j \in BroadcastAt : j <= k })]

\* C35: a broadcast frame carries an attack on string i exactly when some
\* frame received after the previous broadcast, skipped or not, up to the
\* frame being broadcast carried it; the attacks latched since the last
\* broadcast are those of the frames received since then.  So a received
\* attack is reported in the next broadcast frame and in no later one.
C35_LatchedAttacksBroadcastOnce ==
    broadcaster.state \in { "loop", "done" } =>
        /\ Len(broadcaster.sent) = Cardinality(BroadcastAt)
        /\ \A k \in BroadcastAt : \A i \in Strings :
              SentFor(k).at[i] <=>
                  \E j \in (PrevBroadcast(k) + 1) .. k :
                      broadcaster.recv[j].frame.attacks[i]
        /\ \A i \in Strings :
              broadcaster.pending_attacks[i] <=>
                  \E j \in (PrevBroadcast(Len(broadcaster.recv) + 1) + 1)
                              .. Len(broadcaster.recv) :
                      broadcaster.recv[j].frame.attacks[i]

\* C35 witness: a frame with an attack on string 4 was skipped by the
\* throttle, the next frame, without that attack, was broadcast with it, and
\* the broadcast after that one does not repeat it.
C35_Witness ==
    /\ broadcaster.state = "loop"
    /\ Len(broadcaster.recv) = 4
    /\ ~broadcaster.recv[1].broadcast /\ broadcaster.recv[1].frame.attacks[3]
    /\ broadcaster.recv[2].broadcast /\ ~broadcaster.recv[2].frame.attacks[3]
    /\ ~broadcaster.recv[3].broadcast /\ broadcaster.recv[4].broadcast
    /\ broadcaster.sent[1].at[3] /\ ~broadcaster.sent[2].at[3]

\* C36: every frame the broadcaster sends has attack[i] only for a string
\* that is active in that frame.
C36_BroadcastAttackImpliesActive ==
    broadcaster.state \in { "loop", "done" } =>
        \A k \in 1 .. Len(broadcaster.sent) : \A i \in Strings :
            broadcaster.sent[k].at[i] => broadcaster.sent[k].sa[i]

\* C37: in the coordinator the inferencer and the detector hold the same
\* audio buffer and the same samples-since-analysis counter, and on every
\* sensor frame either both run their analysis pass or neither does, with
\* audio detection on or off.
C37_SameBuffersSamePasses ==
    /\ inference.audio_buf = string_detector.audio_buf
    /\ inference.samples_since_analysis = string_detector.samples_since_analysis
    /\ inf_ready(inference) <=> det_ready(string_detector)
    /\ SensorHandled => (step.bar_ran <=> step.branch # "not_ready")

\* C37 witness: with audio detection off, a sensor frame on which both
\* passes ran, the detector's without a bar position, leaving both counters
\* at zero over a full buffer.
C37_Witness ==
    /\ ~use_audio_detection
    /\ SensorHandled /\ step.bar_ran /\ step.branch = "no_bar"
    /\ BufLen(string_detector.audio_buf) >= ANALYSIS_WINDOW
    /\ inference.samples_since_analysis = 0

-----------------------------------------------------------------------------
(* Two coordinators, one with audio detection on and one with it off, given  *)
(* the same events one after the other.                                      *)

\* coord_sensor computing the bar confidence only in audio mode.
coord_sensor_ConfidenceWhenOn(audio_mode, co, sensor, dsp) ==
    LET bar == infer(co.inference, sensor, dsp)
        bar_state == IF audio_mode THEN bar.state
                     ELSE [bar.state EXCEPT !.confidence = 0]
        d == detect(co.string_detector, sensor, bar.state.position, dsp)
        string_active == SelectActive(audio_mode, sensor, d.active)
        initial == InitialAttacks(audio_mode, string_active, d.attacks, co.prev_active)
        attacks == CrossingAttacks(initial, string_active,
                                   PedalEngaged(sensor), co.prev_pedal_engaged,
                                   LeverEngaged(sensor), co.prev_lever_engaged)
    IN  [ inference |-> bar.inf, string_detector |-> d.det,
          prev_active |-> string_active,
          prev_pedal_engaged |-> PedalEngaged(sensor),
          prev_lever_engaged |-> LeverEngaged(sensor),
          frame |-> BuildFrame(sensor, bar_state,
                               compute_pitches(sensor, bar.state.position),
                               string_active, attacks, co.frame.seq + 1) ]

\* run(), InputEvent::Sensor arm, on the coordinator co whose
\* use_audio_detection is audio_mode; dsp is what the spectral analyses of
\* this frame yield.
coord_sensor(audio_mode, co, sensor, dsp) ==
    LET bar == infer(co.inference, sensor, dsp)
        d == detect(co.string_detector, sensor, bar.state.position, dsp)
        string_active == SelectActive(audio_mode, sensor, d.active)
        initial == InitialAttacks(audio_mode, string_active, d.attacks, co.prev_active)
        attacks == CrossingAttacks(initial, string_active,
                                   PedalEngaged(sensor), co.prev_pedal_engaged,
                                   LeverEngaged(sensor), co.prev_lever_engaged)
    IN  [ inference |-> bar.inf, string_detector |-> d.det,
          prev_active |-> string_active,
          prev_pedal_engaged |-> PedalEngaged(sensor),
          prev_lever_engaged |-> LeverEngaged(sensor),
          frame |-> BuildFrame(sensor, bar.state,
                               compute_pitches(sensor, bar.state.position),
                               string_active, attacks, co.frame.seq + 1) ]

\* run(), InputEvent::Audio arm
coord_audio(co, chunk) ==
    [co EXCEPT !.inference = inf_push_audio(@, chunk),
               !.string_detector = det_push_audio(@, chunk)]

twinVars == << input_q, input_open, produced, last_ts, frame_q, rx_alive,
               received, pc, send_idx, frame, use_audio_detection, prev_active,
               prev_pedal_engaged, prev_lever_engaged, inference,
               string_detector, taken, step, audio_capture, session, sink_pc,
               serial, broadcaster, logger >>

\* The same sensor frame reaches both coordinators.  The spectral analyses
\* are functions of the audio buffered and of the frame; they are drawn for
\* the `on` run and given to the `off` run when its inferencer and detector
\* are in the same state, and drawn afresh for it otherwise.
TwinSensor ==
    /\ twin.events < MaxTwinEvents
    /\ \E s \in SensorFrames(twin.ts + 1) :
       \E dsp \in DspChoices(twin.on.inference, twin.on.string_detector) :
       \E dsp_off \in (IF /\ twin.off.inference = twin.on.inference
                          /\ twin.off.string_detector = twin.on.string_detector
                       THEN { dsp }
                       ELSE DspChoices(twin.off.inference, twin.off.string_detector)) :
         twin' = [ on |-> coord_sensor(TRUE, twin.on, s, dsp),
                   off |-> coord_sensor(FALSE, twin.off, s, dsp_off),
                   events |-> twin.events + 1, ts |-> twin.ts + 1,
                   last |-> "sensor" ]
    /\ UNCHANGED twinVars

\* The same audio chunk reaches both coordinators.
TwinAudio ==
    /\ twin.events < MaxTwinEvents
    /\ \E c \in AudioChunks :
         twin' = [twin EXCEPT !.on = coord_audio(@, c), !.off = coord_audio(@, c),
                              !.events = @ + 1, !.last = "audio"]
    /\ UNCHANGED twinVars

TwinNext == TwinSensor \/ TwinAudio

TwinInit == Init /\ use_audio_detection = FALSE

TwinSpec == TwinInit /\ [][TwinNext]_vars

\* The fields of a frame other than string_active and attacks
ModeFreeFields(f) ==
    IF f = NoFrame THEN f
    ELSE [ timestamp_us |-> f.timestamp_us, pedals |-> f.pedals,
           knee_levers |-> f.knee_levers, volume |-> f.volume,
           bar_sensors |-> f.bar_sensors, bar_position |-> f.bar_position,
           bar_confidence |-> f.bar_confidence, bar_source |-> f.bar_source,
           string_pitches_hz |-> f.string_pitches_hz, seq |-> f.seq ]

\* C38: given the same events, the coordinator with audio detection on and
\* the one with it off emit frames that agree on timestamp, pedals, knee
\* levers, volume, bar sensors, bar position, confidence, source and
\* pitches, and keep the same inferencer, detector and control state: the
\* mode shows only in string_active and attacks.
C38_ModeOnlyInActiveAndAttacks ==
    /\ ModeFreeFields(twin.on.frame) = ModeFreeFields(twin.off.frame)
    /\ twin.on.inference = twin.off.inference
    /\ twin.on.string_detector = twin.off.string_detector
    /\ twin.on.prev_pedal_engaged = twin.off.prev_pedal_engaged
    /\ twin.on.prev_lever_engaged = twin.off.prev_lever_engaged

\* C38 witness: the two runs have just emitted frames with a known bar
\* position from the audio analysis that differ in string_active and in
\* attacks.
C38_Witness ==
    /\ twin.last = "sensor"
    /\ twin.on.frame.bar_position # NONE
    /\ twin.on.frame.bar_source \in { "Audio", "Fused" }
    /\ twin.on.frame.string_active # twin.off.frame.string_active
    /\ twin.on.frame.attacks # twin.off.frame.attacks
    /\ \E i \in Strings : twin.on.frame.attacks[i]

\* C39: on a sensor frame whose Hall sensors report no bar, the inferencer
\* reports a position only if its audio analysis pass ran on that frame, with
\* source Audio; a pass runs only once analysis_interval samples have come
\* in since the last one and sets that count back to zero; and a frame on
\* which no pass ran reports the bar unknown and clears the smoother.
C39_AudioOnlyOnPassFrames ==
    (step.op = "infer" /\ step.sensor_est.pos = NONE) =>
        /\ step.state.position # NONE =>
              /\ step.ran /\ step.state.source = "Audio"
              /\ step.audio_est.pos # NONE
        /\ step.ran =>
              /\ step.before.samples_since_analysis >= ANALYSIS_INTERVAL
              /\ BufLen(step.before.audio_buf) >= ANALYSIS_WINDOW
              /\ inference.samples_since_analysis = 0
        /\ ~step.ran =>
              /\ step.state.position = NONE /\ step.state.source = "None"
              /\ inference.last_position = NONE
              /\ inference.samples_since_analysis = step.before.samples_since_analysis

\* C39 witness: the frame after one that reported an audio position: the
\* buffer still holds the same loud audio but no pass runs, the bar is
\* reported unknown and the smoother, which held a position, is cleared.
C39_Witness ==
    /\ step.op = "infer" /\ step.sensor_est.pos = NONE
    /\ ~step.ran
    /\ step.before.last_position # NONE
    /\ BufLen(step.before.audio_buf) >= ANALYSIS_WINDOW
    /\ ~RmsBelow(Window(step.before.audio_buf), INF_SILENCE_RMS)
    /\ step.state.position = NONE /\ inference.last_position = NONE

-----------------------------------------------------------------------------
(* DataLogger::run (data_logger.rs) beside the coordinator: the coordinator  *)
(* sends every frame on the logger's bounded frame channel and a clone of    *)
(* every audio chunk on the unbounded audio-log channel; the logger writes   *)
(* both to the session directory.                                            *)

logVars == << input_q, input_open, produced, last_ts, frame_q, rx_alive,
              received, pc, send_idx, frame, use_audio_detection, prev_active,
              prev_pedal_engaged, prev_lever_engaged, inference,
              string_detector, taken, step, audio_capture, session, sink_pc,
              serial, broadcaster, twin >>

\* Sample counts of the audio chunks forwarded
LogChunkSizes == { 512, CHUNK_SIZE }

\* Coordinator, Sensor arm: the frame is sent on the logger's channel (a
\* blocking send; the logger's receiver lives as long as the coordinator,
\* since the logger stops only when the sender is gone).
LogCoordSensor ==
    /\ logger.coord = "run" /\ logger.events < MaxLogEvents
    /\ Len(logger.frame_q) < LogCap
    /\ logger' = [logger EXCEPT !.events = @ + 1,
                                !.frame_q = Append(@, logger.events + 1)]
    /\ UNCHANGED logVars

\* Coordinator, Audio arm: `tx.send(chunk.clone())` on the audio-log channel
LogCoordAudio ==
    /\ logger.coord = "run" /\ logger.events < MaxLogEvents
    /\ \E n \in LogChunkSizes :
         logger' = [logger EXCEPT !.events = @ + 1,
                                  !.audio_q = Append(@, n),
                                  !.forwarded = @ + n]
    /\ UNCHANGED logVars

\* The input channel ends: run() returns and the coordinator thread drops
\* the Coordinator with its senders.
LogCoordExit ==
    /\ logger.coord = "run"
    /\ logger' = [logger EXCEPT !.coord = "exited"]
    /\ UNCHANGED logVars

\* run(): manifest, header and files are written; the loop is entered
LoggerStart ==
    /\ logger.pc = "start"
    /\ logger' = [logger EXCEPT !.pc = "drain"]
    /\ UNCHANGED logVars

\* run(): one turn of `while let Ok(chunk) = self.audio_rx.try_recv()`, or
\* its end when try_recv finds the channel empty
LoggerDrain ==
    /\ logger.pc = "drain"
    /\ IF logger.audio_q # << >>
       THEN logger' = [logger EXCEPT !.audio_q = Tail(@),
                                     !.audio_sample_count = @ + Head(logger.audio_q)]
       ELSE logger' = [logger EXCEPT !.pc = "recv"]
    /\ UNCHANGED logVars

\* run(): `self.rx.recv()` gives a frame, which is written
LoggerRecv ==
    /\ logger.pc = "recv" /\ logger.frame_q # << >>
    /\ logger' = [logger EXCEPT !.frame_q = Tail(@), !.frame_count = @ + 1,
                                !.pc = "drain"]
    /\ UNCHANGED logVars

\* run(): `self.rx.recv()` gives Err: the frame channel is empty and its
\* sender is gone.  The loop breaks, both writers are flushed, run returns.
LoggerStop ==
    /\ logger.pc = "recv" /\ logger.frame_q = << >> /\ logger.coord = "exited"
    /\ logger' = [logger EXCEPT !.pc = "done"]
    /\ UNCHANGED logVars

LogNext ==
    \/ LogCoordSensor
    \/ LogCoordAudio
    \/ LogCoordExit
    \/ LoggerStart
    \/ LoggerDrain
    \/ LoggerRecv
    \/ LoggerStop

LogInit == Init /\ use_audio_detection = FALSE

LogSpec == LogInit /\ [][LogNext]_vars

\* C40: when the logger has stopped, every sample the coordinator forwarded
\* on the audio-log channel has been written to the raw audio file.
C40_AllForwardedAudioLogged ==
    logger.pc = "done" => logger.audio_sample_count = logger.forwarded
====
